---- MODULE Spec2Model ----
(***************************************************************************)
(* A model of tickdb: the paged storage manager (src/store/db.go) and the  *)
(* hierarchical time-bucket tree (src/storage/node.go).                    *)
(*                                                                         *)
(* The module holds several specifications over one set of variables.     *)
(* Each specification drives one part of the program and leaves the       *)
(* variables of the other parts at their idle values:                     *)
(*   SpecTx    the transaction gate: beginRWTx, Commit/Rollback, Close    *)
(*   SpecPut   DB.Put and Close called concurrently, with fair locks      *)
(*   SpecMmap  DB.mmapSize                                                *)
(*   SpecMeta  the two meta pages: validate, sum64, DB.meta, DB.mmap      *)
(*   SpecTree  the tree: put, insertPoint, insertNode, expand, flush      *)
(*   SpecNode  reduce on a leaf and on an interior node                   *)
(*   SpecCodec node.encode and DB.decodeNode                              *)
(*   SpecOpen  Open and DB.init on a data file                            *)
(***************************************************************************)
EXTENDS Integers, Sequences, FiniteSets, TLC

VARIABLES
    \* ---- transaction gate (db.go) ----
    pc,         \* per thread: where it stands in beginRWTx / Close
    rwlock,     \* db.rwlock is held
    metalock,   \* db.metalock is held
    opened,     \* db.opened
    rwtx,       \* db.rwtx: the thread whose Tx it is, or NoTx
    ret,        \* per thread: what its last call returned
    \* ---- mmapSize (db.go) ----
    pageSize,   \* db.pageSize
    maxMapSize, \* the build's maxMapSize
    mmapIn,     \* the size last passed to mmapSize
    mmapOut,    \* what mmapSize returned for it
    \* ---- meta pages (db.go) ----
    meta0,      \* the bytes of the meta struct of page 0
    meta1,      \* the bytes of the meta struct of page 1
    metaRes,    \* the outcome of the last DB.meta() / DB.mmap() call
    changed,    \* the bytes changed on disk since the pages were written
    \* ---- tree (node.go) ----
    root,       \* db.root and everything it owns
    nextPos,    \* the position the next written chunk gets
    last,       \* the last tree operation, its arguments and the node before it
    nops,       \* tree operations so far
    \* ---- reduce on one node (node.go) ----
    rnode,      \* the node reduce is applied to
    rres,       \* what reduce returned
    \* ---- encode / decode (node.go) ----
    cnode,      \* the in-memory node
    clen,       \* the length of its encoding
    cdec,       \* what decodeNode made of the encoding
    \* ---- Open and init (db.go) ----
    opc,        \* where the caller stands in Open / init
    osPageSize, \* os.Getpagesize()
    dbPageSize, \* db.pageSize of the DB being opened
    buf,        \* the buffer init builds
    file,       \* the pages of the data file
    disk,       \* the pages of the data file that are durable
    initRet,    \* what init returned in this Open
    openRet,    \* what this Open returned
    opens       \* calls of Open so far

txVars    == <<pc, rwlock, metalock, opened, rwtx, ret>>
mmapVars  == <<pageSize, maxMapSize, mmapIn, mmapOut>>
metaVars  == <<meta0, meta1, metaRes, changed>>
treeVars  == <<root, nextPos, last, nops>>
nodeVars  == <<rnode, rres>>
codecVars == <<cnode, clen, cdec>>
openVars  == <<opc, osPageSize, dbPageSize, buf, file, disk, initRet, openRet, opens>>
vars      == <<txVars, mmapVars, metaVars, treeVars, nodeVars, codecVars, openVars>>

None == "none"
\* No call has returned yet.
NoCall == [op |-> "none", page |-> -1, res |-> "none"]

\* The idle values of each part.
TxIdle    == pc = <<>> /\ rwlock = FALSE /\ metalock = FALSE /\ opened = FALSE
             /\ rwtx = None /\ ret = <<>>
MmapIdle  == pageSize = 0 /\ maxMapSize = <<0, 0>> /\ mmapIn = None /\ mmapOut = None
MetaIdle  == meta0 = <<>> /\ meta1 = <<>> /\ metaRes = NoCall /\ changed = <<>>
TreeIdle  == root = None /\ nextPos = 0 /\ last = None /\ nops = 0
NodeIdle  == rnode = None /\ rres = None
CodecIdle == cnode = None /\ clen = 0 /\ cdec = None
OpenIdle  == opc = None /\ osPageSize = 0 /\ dbPageSize = 0 /\ buf = <<>> /\ file = <<>>
             /\ disk = <<>> /\ initRet = None /\ openRet = None /\ opens = 0

(***************************************************************************)
(* The transaction gate.                                                   *)
(***************************************************************************)

\* The number of threads that call into the DB.
NThreads == 3
Threads  == 1..NThreads

\* db.rwtx when no writer transaction is registered: no thread.
NoTx == 0
\* The nil error.
Nil == "nil"
ErrDatabaseNotOpen == "ErrDatabaseNotOpen"
ErrFileClose == "db file close: error"

\* The other parts stay idle.
NotTx == MmapIdle /\ MetaIdle /\ TreeIdle /\ NodeIdle /\ CodecIdle /\ OpenIdle
KeepNotTx == UNCHANGED <<mmapVars, metaVars, treeVars, nodeVars, codecVars, openVars>>

\* Open returns a DB with opened = true; no lock is held and no thread is
\* inside a call.
InitTx ==
    /\ pc = [t \in Threads |-> "idle"]
    /\ rwlock = FALSE
    /\ metalock = FALSE
    /\ opened = TRUE
    /\ rwtx = NoTx
    /\ ret = [t \in Threads |-> None]
    /\ NotTx

\* A thread calls beginRWTx: it stands before db.rwlock.Lock().
beginRWTx_call(t) ==
    /\ pc[t] = "idle"
    /\ pc' = [pc EXCEPT ![t] = "begin_rwlock"]
    /\ ret' = [ret EXCEPT ![t] = None]
    /\ UNCHANGED <<rwlock, metalock, opened, rwtx>>
    /\ KeepNotTx

\* The writer lock taken without waiting for it to be free.
beginRWTx_rwlock_nowait(t) ==
    /\ pc[t] = "begin_rwlock"
    /\ rwlock' = TRUE
    /\ pc' = [pc EXCEPT ![t] = "begin_metalock"]
    /\ UNCHANGED <<metalock, opened, rwtx, ret>>
    /\ KeepNotTx

\* db.rwlock.Lock(): blocks while the lock is held.
beginRWTx_rwlock(t) ==
    /\ pc[t] = "begin_rwlock"
    /\ ~rwlock
    /\ rwlock' = TRUE
    /\ pc' = [pc EXCEPT ![t] = "begin_metalock"]
    /\ UNCHANGED <<metalock, opened, rwtx, ret>>
    /\ KeepNotTx

\* db.metalock.Lock(): blocks while the lock is held.
beginRWTx_metalock(t) ==
    /\ pc[t] = "begin_metalock"
    /\ ~metalock
    /\ metalock' = TRUE
    /\ pc' = [pc EXCEPT ![t] = "begin_body"]
    /\ UNCHANGED <<rwlock, opened, rwtx, ret>>
    /\ KeepNotTx

\* A mutation of beginRWTx_body: on a closed DB the writer lock is kept.
beginRWTx_body_keepLock(t) ==
    /\ pc[t] = "begin_body"
    /\ metalock' = FALSE
    /\ IF ~opened
         THEN /\ ret' = [ret EXCEPT ![t] = ErrDatabaseNotOpen]
              /\ pc' = [pc EXCEPT ![t] = "idle"]
              /\ UNCHANGED <<rwtx, rwlock>>
         ELSE /\ rwtx' = t
              /\ ret' = [ret EXCEPT ![t] = "Tx"]
              /\ pc' = [pc EXCEPT ![t] = "tx"]
              /\ UNCHANGED rwlock
    /\ UNCHANGED opened
    /\ KeepNotTx

\* The body of beginRWTx under both locks, up to its return (the deferred
\* db.metalock.Unlock() included).  A closed DB: the writer lock is released
\* and ErrDatabaseNotOpen returned.  An open DB: the Tx is created and
\* registered as db.rwtx; the loop over db.txs only computes a local.
beginRWTx_body(t) ==
    /\ pc[t] = "begin_body"
    /\ metalock' = FALSE
    /\ IF ~opened
         THEN /\ rwlock' = FALSE
              /\ ret' = [ret EXCEPT ![t] = ErrDatabaseNotOpen]
              /\ pc' = [pc EXCEPT ![t] = "idle"]
              /\ UNCHANGED rwtx
         ELSE /\ rwtx' = t
              /\ ret' = [ret EXCEPT ![t] = "Tx"]
              /\ pc' = [pc EXCEPT ![t] = "tx"]
              /\ UNCHANGED rwlock
    /\ UNCHANGED opened
    /\ KeepNotTx

\* Tx.Commit / Tx.Rollback of the writer transaction: the writer lock is
\* released.  (The Tx type is not among the sources; this is what the
\* comment at beginRWTx and the specification say of it.)
TxClose(t) ==
    /\ pc[t] = "tx"
    /\ rwlock' = FALSE
    /\ rwtx' = IF rwtx = t THEN NoTx ELSE rwtx
    /\ pc' = [pc EXCEPT ![t] = "idle"]
    /\ ret' = [ret EXCEPT ![t] = "closed"]
    /\ UNCHANGED <<metalock, opened>>
    /\ KeepNotTx

\* A thread calls Close: it stands before db.rwlock.Lock().
Close_call(t) ==
    /\ pc[t] = "idle"
    /\ pc' = [pc EXCEPT ![t] = "close_rwlock"]
    /\ ret' = [ret EXCEPT ![t] = None]
    /\ UNCHANGED <<rwlock, metalock, opened, rwtx>>
    /\ KeepNotTx

Close_rwlock(t) ==
    /\ pc[t] = "close_rwlock"
    /\ ~rwlock
    /\ rwlock' = TRUE
    /\ pc' = [pc EXCEPT ![t] = "close_metalock"]
    /\ UNCHANGED <<metalock, opened, rwtx, ret>>
    /\ KeepNotTx

Close_metalock(t) ==
    /\ pc[t] = "close_metalock"
    /\ ~metalock
    /\ metalock' = TRUE
    /\ pc' = [pc EXCEPT ![t] = "close_body"]
    /\ UNCHANGED <<rwlock, opened, rwtx, ret>>
    /\ KeepNotTx

\* A mutation of Close_body: the deferred db.rwlock.Unlock() is left out.
Close_body_keepLock(t) ==
    /\ pc[t] = "close_body"
    /\ IF ~opened
         THEN /\ ret' = [ret EXCEPT ![t] = Nil]
              /\ UNCHANGED opened
         ELSE /\ opened' = FALSE
              /\ \E err \in {Nil, ErrFileClose} : ret' = [ret EXCEPT ![t] = err]
    /\ metalock' = FALSE
    /\ pc' = [pc EXCEPT ![t] = "idle"]
    /\ UNCHANGED <<rwlock, rwtx>>
    /\ KeepNotTx

\* db.close() under both locks, then the two deferred unlocks.  A closed DB:
\* nil, nothing changes.  An open DB: opened becomes false, and the result is
\* nil or the error of closing the file.
Close_body(t) ==
    /\ pc[t] = "close_body"
    /\ IF ~opened
         THEN /\ ret' = [ret EXCEPT ![t] = Nil]
              /\ UNCHANGED opened
         ELSE /\ opened' = FALSE
              /\ \E err \in {Nil, ErrFileClose} : ret' = [ret EXCEPT ![t] = err]
    /\ metalock' = FALSE
    /\ rwlock' = FALSE
    /\ pc' = [pc EXCEPT ![t] = "idle"]
    /\ UNCHANGED rwtx
    /\ KeepNotTx

NextTx ==
    \/ \E t \in Threads : beginRWTx_call(t)
    \/ \E t \in Threads : beginRWTx_rwlock(t)
    \/ \E t \in Threads : beginRWTx_metalock(t)
    \/ \E t \in Threads : beginRWTx_body(t)
    \/ \E t \in Threads : TxClose(t)
    \/ \E t \in Threads : Close_call(t)
    \/ \E t \in Threads : Close_rwlock(t)
    \/ \E t \in Threads : Close_metalock(t)
    \/ \E t \in Threads : Close_body(t)

SpecTx == InitTx /\ [][NextTx]_vars

\* The threads that hold a write transaction they have not closed yet.
Writers == {t \in Threads : pc[t] = "tx"}

\* C1: at most one write transaction exists at any instant, and a thread
\* waiting in beginRWTx for the writer lock gets past it only when no other
\* thread holds a write transaction or is setting one up: of two concurrent
\* callers one proceeds and the other stays blocked until the first
\* transaction is committed or rolled back.
C1_SingleWriter ==
    /\ [](Cardinality(Writers) <= 1)
    /\ [][\A t \in Threads :
            (pc[t] = "begin_rwlock" /\ pc'[t] # "begin_rwlock")
                => \A u \in Threads : pc[u] \notin {"tx", "begin_metalock", "begin_body"}]_vars

\* Two threads called beginRWTx: one holds its Tx, the other waits for the
\* writer lock.
C1_Witness ==
    \E t, u \in Threads : t # u /\ pc[t] = "tx" /\ pc[u] = "begin_rwlock" /\ rwlock

\* The threads that hold the writer lock or are about to release it.
LockHolders == {t \in Threads : pc[t] \in {"begin_metalock", "begin_body", "tx",
                                           "close_metalock", "close_body"}}

\* C12: beginRWTx on a closed DB returns ErrDatabaseNotOpen, leaves db.rwtx
\* as it was and returns with the writer lock released; Close on a closed
\* DB returns nil and changes nothing but the locks it took; the writer
\* lock is never held when no call is between taking and releasing it, so
\* a later beginRWTx or Close does not wait for a call that has returned.
C12_ClosedDB ==
    /\ [][\A t \in Threads :
            (pc[t] = "begin_body" /\ ~opened /\ pc'[t] # "begin_body")
                => /\ ret'[t] = ErrDatabaseNotOpen
                   /\ pc'[t] = "idle"
                   /\ rwtx' = rwtx
                   /\ ~rwlock' /\ ~metalock'
                   /\ ~opened']_vars
    /\ [][\A t \in Threads :
            (pc[t] = "close_body" /\ ~opened /\ pc'[t] # "close_body")
                => /\ ret'[t] = Nil
                   /\ pc'[t] = "idle"
                   /\ rwtx' = rwtx
                   /\ ~rwlock' /\ ~metalock'
                   /\ ~opened']_vars
    /\ [](rwlock => LockHolders # {})
    /\ [](\A t \in Threads : ret[t] = ErrDatabaseNotOpen => ~opened)

\* Two calls of beginRWTx on the closed DB returned one after the other, a
\* third caller took the writer lock after them, and no writer
\* transaction is registered.
C12_Witness ==
    /\ ~opened
    /\ rwtx = NoTx
    /\ \E t, u, v \in Threads :
        /\ t # u /\ u # v /\ t # v
        /\ ret[t] = ErrDatabaseNotOpen /\ pc[t] = "idle"
        /\ ret[u] = ErrDatabaseNotOpen /\ pc[u] = "idle"
        /\ pc[v] = "close_body"

(***************************************************************************)
(* SpecPut: DB.Put and Close called concurrently, with fair locks.         *)
(*                                                                         *)
(* The threads of Putters call Put and Close.  Put is beginRWTx, the seek  *)
(* of a cursor and t.Commit(); Cursor.seek and Tx.Commit are not among     *)
(* the sources: seek returns, and Commit releases the writer lock, as the  *)
(* specification says.  The last thread uses beginRWTx itself and either   *)
(* closes its transaction or leaves it open for ever.  A sync.Mutex hands  *)
(* the lock to a goroutine that has waited long enough, so taking a lock   *)
(* the writer lock is strongly fair; a step that does not wait for it is   *)
(* weakly fair; calling is not fair at all.                                *)
(***************************************************************************)

Putters == 1..(NThreads - 1)
Holder  == NThreads

\* The rest of Put after beginRWTx returned a Tx: c.seek(key), and
\* t.Commit(), which closes the transaction and releases the writer lock.
Put_commit(t) ==
    /\ pc[t] = "tx"
    /\ rwlock' = FALSE
    /\ rwtx' = IF rwtx = t THEN NoTx ELSE rwtx
    /\ pc' = [pc EXCEPT ![t] = "idle"]
    /\ ret' = [ret EXCEPT ![t] = Nil]
    /\ UNCHANGED <<metalock, opened>>
    /\ KeepNotTx

\* The holder of a write transaction drops it without Commit or Rollback.
TxLeak(t) ==
    /\ pc[t] = "tx"
    /\ pc' = [pc EXCEPT ![t] = "leaked"]
    /\ UNCHANGED <<rwlock, metalock, opened, rwtx, ret>>
    /\ KeepNotTx

NextPut ==
    \/ \E t \in Threads : beginRWTx_call(t)
    \/ \E t \in Threads : beginRWTx_rwlock(t)
    \/ \E t \in Threads : beginRWTx_metalock(t)
    \/ \E t \in Threads : beginRWTx_body(t)
    \/ \E t \in Putters : Put_commit(t)
    \/ \E t \in {Holder} : TxClose(t)
    \/ \E t \in {Holder} : TxLeak(t)
    \/ \E t \in Putters : Close_call(t)
    \/ \E t \in Putters : Close_rwlock(t)
    \/ \E t \in Putters : Close_metalock(t)
    \/ \E t \in Putters : Close_body(t)

\* The steps of thread t that wait for the writer lock, and its steps
\* that do not wait for it.  The meta lock is only taken with the writer
\* lock held, so it is free whenever a thread stands before it.
TakeWriterLock(t) == beginRWTx_rwlock(t) \/ Close_rwlock(t)
Proceed(t) ==
    \/ beginRWTx_metalock(t)
    \/ beginRWTx_body(t)
    \/ Close_metalock(t) /\ t \in Putters
    \/ Close_body(t) /\ t \in Putters
    \/ Put_commit(t) /\ t \in Putters
    \/ (TxClose(t) \/ TxLeak(t)) /\ t = Holder

FairPut ==
    /\ \A t \in Threads : SF_vars(TakeWriterLock(t))
    /\ \A t \in Threads : WF_vars(Proceed(t))

SpecPut == InitTx /\ [][NextPut]_vars /\ FairPut

\* A write transaction was left open for ever.
Leaked == \E t \in Threads : pc[t] = "leaked"

\* The threads that stand between taking the meta lock and releasing it,
\* or wait for it.
AtMetalock == {t \in Threads : pc[t] \in {"begin_metalock", "begin_body",
                                          "close_metalock", "close_body"}}

\* C21: the write transaction Put opens is closed before Put returns, the
\* writer lock released; beginRWTx and Close stand at the meta lock only
\* with the writer lock held; with fair locks every caller of Put and of
\* Close returns unless a write transaction is left open for ever; and
\* once a write transaction is left open, the writer lock stays held and
\* no caller of beginRWTx or Close ever gets past it or returns.
C21_PutTerminates ==
    /\ [][\A t \in Putters :
            (pc[t] = "tx" /\ pc'[t] # "tx")
                => pc'[t] = "idle" /\ ~rwlock' /\ rwtx' = NoTx]_vars
    /\ [](\A t \in Putters : pc[t] = "idle" => rwtx # t)
    /\ [](rwlock => (AtMetalock # {} \/ \E t \in Threads : pc[t] \in {"tx", "leaked"}))
    /\ [](AtMetalock # {} => rwlock /\ Cardinality(AtMetalock) = 1)
    /\ \A t \in Putters : (pc[t] # "idle") ~> (pc[t] = "idle" \/ Leaked)
    /\ [](Leaked => rwlock)
    /\ [][Leaked => /\ Leaked'
                    /\ \A t \in Threads :
                        pc[t] \in {"begin_rwlock", "close_rwlock"} => pc'[t] = pc[t]
                    /\ \A t \in Threads : pc[t] # "idle" => pc'[t] # "idle"]_vars

\* A Put committed and returned, Close closed the DB after it, and a later
\* Put returned with the error of the closed DB: no lock is held and no
\* writer transaction is registered.
C21_Witness ==
    /\ ~opened /\ ~rwlock /\ ~metalock /\ rwtx = NoTx
    /\ \A t \in Threads : pc[t] = "idle"
    /\ \E t, u \in Putters :
        /\ t # u
        /\ ret[t] = ErrDatabaseNotOpen
        /\ ret[u] \in {Nil, ErrFileClose}

(***************************************************************************)
(* DB.mmapSize.                                                            *)
(*                                                                         *)
(* A size in bytes is a pair <<g, r>> that stands for g * 2^30 + r with    *)
(* 0 <= r < 2^30: the sizes mmapSize handles go beyond the integers TLC    *)
(* computes with.  The operators below are the integer operations of the   *)
(* code on that representation; nothing overflows in the code itself (int  *)
(* and int64 hold every value up to maxMapSize and one step above it).     *)
(***************************************************************************)

\* const maxMmapStep = 1 << 30
maxMmapStep == 1073741824

SzOfInt(n)   == <<n \div maxMmapStep, n % maxMmapStep>>
SzLT(a, b)   == a[1] < b[1] \/ (a[1] = b[1] /\ a[2] < b[2])
SzLE(a, b)   == ~SzLT(b, a)
\* a + k and a - k for 0 <= k < 2^30 (a - k is used only where a >= k).
SzAdd(a, k)  == IF a[2] + k >= maxMmapStep THEN <<a[1] + 1, (a[2] + k) - maxMmapStep>>
                ELSE <<a[1], a[2] + k>>
SzSub(a, k)  == IF a[2] >= k THEN <<a[1], a[2] - k>>
                ELSE <<a[1] - 1, (maxMmapStep - k) + a[2]>>
\* a % m for 0 < m <= 2^16.
SzMod(a, m)  == (((a[1] % m) * (maxMmapStep % m)) + (a[2] % m)) % m

ErrMmapTooLarge == "mmap too large"

\* for i := uint(15); i <= 30; i++ { if size <= 1<<i { return 1 << i, nil } }
RECURSIVE mmapSizeLoop(_, _)
mmapSizeLoop(size, i) ==
    IF i > 30 THEN None
    ELSE IF SzLE(size, SzOfInt(2^i)) THEN SzOfInt(2^i)
    ELSE mmapSizeLoop(size, i + 1)

\* mmapSize without the step up to the next 1GB boundary.
mmapSize_nostep(size, ps, max) ==
    LET doubled == mmapSizeLoop(size, 15) IN
    IF doubled # None THEN doubled
    ELSE IF SzLT(max, size) THEN ErrMmapTooLarge
    ELSE LET sz1 == size
             rem == SzMod(sz1, ps)
             sz2 == IF rem # 0 THEN SzAdd(SzSub(sz1, rem), ps) ELSE sz1
         IN  IF SzLT(max, sz2) THEN max ELSE sz2

\* DB.mmapSize(size) for db.pageSize = ps and maxMapSize = max: the size, or
\* the error.  ((sz / pageSize) + 1) * pageSize is sz - sz % pageSize + pageSize.
mmapSize(size, ps, max) ==
    LET doubled == mmapSizeLoop(size, 15) IN
    IF doubled # None THEN doubled
    ELSE IF SzLT(max, size) THEN ErrMmapTooLarge
    ELSE LET remainder == size[2]
             sz1 == IF remainder > 0 THEN SzAdd(size, maxMmapStep - remainder) ELSE size
             rem == SzMod(sz1, ps)
             sz2 == IF rem # 0 THEN SzAdd(SzSub(sz1, rem), ps) ELSE sz1
         IN  IF SzLT(max, sz2) THEN max ELSE sz2

\* How far around each boundary the requested sizes are taken.
Spread == 2

\* The page sizes: os.Getpagesize() of the common platforms, and one that is
\* no power of two, as Open may read from the meta page of an existing file.
PageSizes == {4096, 16384, 65536, 12288}

\* maxMapSize is set per platform outside the sources given; these are the
\* hard maxima tried: 2^31 - 1, 2^48 - 1 and a whole number of gigabytes.
MaxMapSizes == {<<1, maxMmapStep - 1>>, <<262143, maxMmapStep - 1>>, <<4, 0>>}

\* The sizes asked for: around every power of two from 2^13 to 2^30, and
\* around the gigabyte boundaries and the hard maxima above that.
MmapInputs ==
    {SzOfInt(1)}
    \cup {SzOfInt(2^i + d) : i \in 13..29, d \in (0 - Spread)..Spread}
    \cup {SzOfInt(maxMmapStep - d) : d \in 0..Spread}
    \cup {<<g, r>> : g \in {1, 2, 3, 4, 262143}, r \in 0..Spread}
    \cup {<<g, maxMmapStep - d>> : g \in {1, 2, 3, 262143}, d \in 1..Spread}
    \cup {<<g, 0>> : g \in {5, 262144}}

NotMmap == TxIdle /\ MetaIdle /\ TreeIdle /\ NodeIdle /\ CodecIdle /\ OpenIdle
KeepNotMmap == UNCHANGED <<txVars, metaVars, treeVars, nodeVars, codecVars, openVars>>

\* A DB of some page size, in a build of some maxMapSize.
InitMmap ==
    /\ pageSize \in PageSizes
    /\ maxMapSize \in MaxMapSizes
    /\ mmapIn = None
    /\ mmapOut = None
    /\ NotMmap

\* A call of db.mmapSize(size).
MmapSizeCall(size) ==
    /\ mmapIn' = size
    /\ mmapOut' = mmapSize(size, pageSize, maxMapSize)
    /\ UNCHANGED <<pageSize, maxMapSize>>
    /\ KeepNotMmap

NextMmap == \E size \in MmapInputs : MmapSizeCall(size)

SpecMmap == InitMmap /\ [][NextMmap]_vars

OneGiB == <<1, 0>>
IsSize(x) == x # None /\ x # ErrMmapTooLarge
\* g is s rounded up to the next 1 GiB boundary.
IsGiBRoundUp(g, s) == g[2] = 0 /\ SzLE(s, g) /\ SzLT(g, <<s[1] + 1, s[2]>>)
\* p is g rounded up to the next multiple of the page size.
IsPageRoundUp(p, g) == SzMod(p, pageSize) = 0 /\ SzLE(g, p) /\ SzLT(p, SzAdd(g, pageSize))
\* x is the smallest power of two that is >= 32 KiB and >= s.
IsSmallestPow2(x, s) ==
    \E i \in 15..30 : /\ x = SzOfInt(2^i)
                      /\ SzLE(s, x)
                      /\ (i > 15 => SzLT(SzOfInt(2^(i - 1)), s))

magic   == <<237, 218, 12, 237>>
version == <<1, 0, 0, 0>>

\* unsafe.Offsetof(meta{}.checksum), and the size of the struct.
ChecksumOffset == 48
MetaSize == 56

\* A small number as an n-byte little-endian field (x < 2^24).
LE(x, n) == [i \in 1..n |-> IF i <= 3 THEN (x \div (256 ^ (i - 1))) % 256 ELSE 0]

MetaMagic(m)    == SubSeq(m, 1, 4)
MetaVersion(m)  == SubSeq(m, 5, 8)
MetaTxid(m)     == SubSeq(m, 41, 48)
MetaChecksum(m) == SubSeq(m, 49, 56)

\* a < b for two little-endian unsigned numbers of the same length.
RECURSIVE ULess(_, _, _)
ULess(a, b, i) ==
    IF i = 0 THEN FALSE
    ELSE IF a[i] # b[i] THEN a[i] < b[i]
    ELSE ULess(a, b, i - 1)

\* a XOR b on bytes.
XorByte(a, b) ==
    LET bit(d) == ((a \div d) + (b \div d)) % 2
    IN  bit(1) + 2 * bit(2) + 4 * bit(4) + 8 * bit(8)
        + 16 * bit(16) + 32 * bit(32) + 64 * bit(64) + 128 * bit(128)

\* hash/fnv, New64a: the offset basis 0xcbf29ce484222325 and the prime
\* 0x100000001b3 = 2^40 + 435, the hash an 8-byte little-endian number.
FnvOffset64 == <<37, 35, 34, 132, 228, 156, 242, 203>>
FnvPrimeLow == 435

\* One byte written to the hash: hash ^= b; hash *= prime64 (mod 2^64).
\* x * prime64 is x * 435 + x * 2^40, summed byte by byte with its carries.
FnvStep(h, b) ==
    LET x1 == XorByte(h[1], b)
        t1 == x1 * FnvPrimeLow
        t2 == h[2] * FnvPrimeLow + (t1 \div 256)
        t3 == h[3] * FnvPrimeLow + (t2 \div 256)
        t4 == h[4] * FnvPrimeLow + (t3 \div 256)
        t5 == h[5] * FnvPrimeLow + (t4 \div 256)
        t6 == h[6] * FnvPrimeLow + x1 + (t5 \div 256)
        t7 == h[7] * FnvPrimeLow + h[2] + (t6 \div 256)
        t8 == h[8] * FnvPrimeLow + h[3] + (t7 \div 256)
    IN  <<t1 % 256, t2 % 256, t3 % 256, t4 % 256, t5 % 256, t6 % 256, t7 % 256, t8 % 256>>

RECURSIVE FnvWrite(_, _, _)
FnvWrite(h, bytes, i) ==
    IF i > Len(bytes) THEN h
    ELSE LET next == FnvStep(h, bytes[i])
         IN  IF Len(next) = 8 THEN FnvWrite(next, bytes, i + 1) ELSE <<>>

\* sum64 that stops before the txid field.
sum64_short(m) == FnvWrite(FnvOffset64, SubSeq(m, 1, ChecksumOffset - 8), 1)

\* meta.sum64: FNV-1a over the bytes before the checksum field.
sum64(m) == FnvWrite(FnvOffset64, SubSeq(m, 1, ChecksumOffset), 1)

ErrInvalid == "ErrInvalid"
ErrVersionMismatch == "ErrVersionMismatch"
ErrChecksum == "ErrChecksum"
Zero64 == <<0, 0, 0, 0, 0, 0, 0, 0>>

\* meta.validate
validate(m) ==
    IF MetaMagic(m) # magic THEN ErrInvalid
    ELSE IF MetaVersion(m) # version THEN ErrVersionMismatch
    ELSE IF MetaChecksum(m) # Zero64 /\ MetaChecksum(m) # sum64(m) THEN ErrChecksum
    ELSE Nil

PanicInvalidMeta == "panic: db.meta(): invalid meta pages"

\* DB.meta that prefers meta0 whatever the transaction ids.
DBmeta_noCompare(m0, m1) ==
    IF validate(m0) = Nil THEN "meta0"
    ELSE IF validate(m1) = Nil THEN "meta1"
    ELSE PanicInvalidMeta

\* DB.meta: which of db.meta0 and db.meta1 is returned, or the panic.
DBmeta(m0, m1) ==
    LET higher1 == ULess(MetaTxid(m0), MetaTxid(m1), 8)
        metaA == IF higher1 THEN m1 ELSE m0
        metaB == IF higher1 THEN m0 ELSE m1
        pageA == IF higher1 THEN "meta1" ELSE "meta0"
        pageB == IF higher1 THEN "meta0" ELSE "meta1"
    IN  IF validate(metaA) = Nil THEN pageA
        ELSE IF validate(metaB) = Nil THEN pageB
        ELSE PanicInvalidMeta

\* The end of DB.mmap: both metas validated, an error only if both fail.
mmapValidate(m0, m1) ==
    LET err0 == validate(m0)
        err1 == validate(m1)
    IN  IF err0 # Nil /\ err1 # Nil THEN err0 ELSE Nil

\* The meta fields as DB.init sets them for a page size ps, with transaction
\* id tx; the checksum is sum64 of them, or zero (never set).
MetaFields(ps, tx) ==
    magic \o version \o LE(ps, 4) \o LE(0, 4) \o LE(2, 8) \o LE(3, 8) \o LE(4, 8) \o LE(tx, 8)
NewMeta(ps, tx, summed) ==
    LET f == MetaFields(ps, tx)
    IN  f \o (IF summed THEN sum64(f \o Zero64) ELSE Zero64)

\* The highest transaction id of a meta page at the start.
MaxTxid == 1
\* A changed byte is the old one with these bits flipped.
Masks == {1, 255}

\* A page that was never written.
ZeroMeta == [i \in 1..MetaSize |-> 0]

\* What a meta page may hold when the file is mapped: a meta with its
\* checksum, a meta whose checksum was never set, a page never written.
StartMetas ==
    {NewMeta(4096, tx, TRUE) : tx \in 0..MaxTxid} \cup {NewMeta(4096, 0, FALSE), ZeroMeta}

NotMeta == TxIdle /\ MmapIdle /\ TreeIdle /\ NodeIdle /\ CodecIdle /\ OpenIdle
KeepNotMeta == UNCHANGED <<txVars, mmapVars, treeVars, nodeVars, codecVars, openVars>>

\* The two meta pages of a data file when it is mapped.
InitMeta ==
    /\ meta0 \in StartMetas
    /\ meta1 \in StartMetas
    /\ metaRes = NoCall
    /\ changed = <<>>
    /\ NotMeta

Page(i) == IF i = 0 THEN meta0 ELSE meta1

\* One byte of one meta page changes on disk (a torn or lost write, decay):
\* the single-byte fault the checksum is there to detect.
ChangeByte(i, pos, mask) ==
    /\ changed = <<>>
    /\ LET old == Page(i)[pos]
           new == [Page(i) EXCEPT ![pos] = XorByte(old, mask)]
       IN  /\ meta0' = IF i = 0 THEN new ELSE meta0
           /\ meta1' = IF i = 1 THEN new ELSE meta1
           /\ changed' = Append(changed, [page |-> i, pos |-> pos, old |-> old])
    /\ metaRes' = NoCall
    /\ KeepNotMeta

\* m.validate() on the meta of page i.
CallValidate(i) ==
    /\ metaRes = NoCall
    /\ metaRes' = [op |-> "validate", page |-> i, res |-> validate(Page(i))]
    /\ UNCHANGED <<meta0, meta1, changed>>
    /\ KeepNotMeta

\* db.meta()
CallMeta ==
    /\ metaRes = NoCall
    /\ metaRes' = [op |-> "meta", page |-> -1, res |-> DBmeta(meta0, meta1)]
    /\ UNCHANGED <<meta0, meta1, changed>>
    /\ KeepNotMeta

\* db.mmap(), from where it saves the references to the meta pages.
CallMmap ==
    /\ metaRes = NoCall
    /\ metaRes' = [op |-> "mmap", page |-> -1, res |-> mmapValidate(meta0, meta1)]
    /\ UNCHANGED <<meta0, meta1, changed>>
    /\ KeepNotMeta

NextMeta ==
    \/ \E i \in 0..1, pos \in 1..MetaSize, mask \in Masks : ChangeByte(i, pos, mask)
    \/ \E i \in 0..1 : CallValidate(i)
    \/ CallMeta
    \/ CallMmap

SpecMeta == InitMeta /\ [][NextMeta]_vars

\* The meta of page i as it was before any byte of it changed.
RECURSIVE Undo(_, _, _)
Undo(m, i, k) ==
    IF k = 0 THEN m
    ELSE Undo(IF changed[k].page = i THEN [m EXCEPT ![changed[k].pos] = changed[k].old] ELSE m,
              i, k - 1)
Orig(i) == Undo(Page(i), i, Len(changed))
ChangesOf(i) == {k \in 1..Len(changed) : changed[k].page = i}

\* C2: db.meta() returns the page with the strictly higher transaction id
\* whenever that page validates; if it fails validation, the other page
\* provided that one validates; if both fail, no meta: db.meta() panics and
\* db.mmap() returns an error.
C2_ActiveMeta ==
    LET v0 == validate(meta0) = Nil
        v1 == validate(meta1) = Nil
        hi0 == ULess(MetaTxid(meta1), MetaTxid(meta0), 8)
        hi1 == ULess(MetaTxid(meta0), MetaTxid(meta1), 8)
    IN  /\ (metaRes.op = "meta") =>
              /\ (hi0 /\ v0) => metaRes.res = "meta0"
              /\ (hi1 /\ v1) => metaRes.res = "meta1"
              /\ (hi0 /\ ~v0 /\ v1) => metaRes.res = "meta1"
              /\ (hi1 /\ ~v1 /\ v0) => metaRes.res = "meta0"
              /\ (~v0 /\ ~v1) => metaRes.res = PanicInvalidMeta
        /\ (metaRes.op = "mmap") =>
              ((~v0 /\ ~v1) => metaRes.res # Nil)

\* db.meta() fell back to page 0: page 1 has the higher transaction id and
\* fails validation.
C2_Witness ==
    /\ metaRes.op = "meta"
    /\ ULess(MetaTxid(meta0), MetaTxid(meta1), 8)
    /\ validate(meta1) # Nil
    /\ metaRes.res = "meta0"

\* validate() was called on page i, of which exactly one byte changed, a
\* byte before the checksum, after the checksum had been set to sum64().
OneCoveredByteChanged(i) ==
    /\ metaRes.op = "validate"
    /\ metaRes.page = i
    /\ Cardinality(ChangesOf(i)) = 1
    /\ \A k \in ChangesOf(i) : changed[k].pos <= ChecksumOffset
    /\ MetaChecksum(Orig(i)) = sum64(Orig(i))

\* validate() was called on page i, no byte of which changed and whose
\* checksum is sum64() of its fields.
UnchangedAndSummed(i) ==
    /\ metaRes.op = "validate"
    /\ metaRes.page = i
    /\ ChangesOf(i) = {}
    /\ MetaChecksum(Page(i)) = sum64(Page(i))

\* C10 as stated: validate() succeeds on a meta whose checksum was set to
\* sum64(); with any single byte of the covered fields changed and the
\* checksum untouched it returns the checksum-mismatch error.
C10_AsStated ==
    \A i \in 0..1 :
        /\ UnchangedAndSummed(i) => metaRes.res = Nil
        /\ OneCoveredByteChanged(i) => metaRes.res = ErrChecksum

\* C10, amended: validate() succeeds on a meta with the right magic and
\* version whose checksum was set to sum64(); with one byte of the covered
\* fields changed and the (non-zero) checksum untouched, validate() fails:
\* with the invalid-magic error for a byte of magic, the version-mismatch
\* error for a byte of version, the checksum-mismatch error for a byte of
\* pageSize, flags, freelist, data, pgid or txid.
C10_Checksum ==
    \A i \in 0..1 :
        /\ (UnchangedAndSummed(i) /\ MetaMagic(Page(i)) = magic /\ MetaVersion(Page(i)) = version)
              => metaRes.res = Nil
        /\ (/\ OneCoveredByteChanged(i)
            /\ MetaMagic(Orig(i)) = magic
            /\ MetaVersion(Orig(i)) = version
            /\ MetaChecksum(Orig(i)) # Zero64)
              => \A k \in ChangesOf(i) :
                    metaRes.res = IF changed[k].pos <= 4 THEN ErrInvalid
                                  ELSE IF changed[k].pos <= 8 THEN ErrVersionMismatch
                                  ELSE ErrChecksum

\* A byte of the txid of a summed meta changed, and validate() returned the
\* checksum-mismatch error.
C10_Witness ==
    \E i \in 0..1 :
        /\ OneCoveredByteChanged(i)
        /\ \A k \in ChangesOf(i) : changed[k].pos > 40
        /\ metaRes.res = ErrChecksum

(***************************************************************************)
(* The tree: nodes, values and reduce (src/storage/node.go).               *)
(*                                                                         *)
(* A node is the record [level, isLeaf, dirty, pointers, points]; a node   *)
(* pointer is [key, pos, pointer, value], where pointer is the child node  *)
(* or NilNode; a point is [Timestamp, Value]. A Go map is a function on    *)
(* the set of its keys, the empty map is <<>>. float64 values are          *)
(* integers small enough to be exact; count is a uint16.                   *)
(***************************************************************************)

LevelRoot    == 1
LevelYear    == 2
LevelMonth   == 4
LevelDay     == 8
LevelHour    == 16
LevelMinute  == 32
LevelSecond  == 64
LevelMSecond == 128
LevelUSecond == 256
LevelNSecond == 512
Levels == {LevelRoot, LevelYear, LevelMonth, LevelDay, LevelHour, LevelMinute,
           LevelSecond, LevelMSecond, LevelUSecond, LevelNSecond}

LevelFlag         == 4095
LeafFlag          == 12288
InteriorChunkFlag == 4096
LeafChunkFlag     == 8192

\* Conversion to uint16.
U16(x) == x % 65536

\* A nil *node.
NilNode == [nil |-> TRUE]
EmptyMap == <<>>

PanicIndex  == "panic: index out of range"
PanicNil    == "panic: nil pointer dereference"
PanicAssert == "panic: assertion failed: insertNode must bigger than parent of point"

newLeafNode ==
    [level |-> 0, isLeaf |-> TRUE, dirty |-> 0, pointers |-> <<>>, points |-> <<>>]

newInteriorNode ==
    [level |-> 0, isLeaf |-> FALSE, dirty |-> -1, pointers |-> <<>>, points |-> <<>>]

\* reduce on a leaf, lines 317-343: the fold over the points from the
\* index-th on (index counts from 0, as in the source). The keys of one
\* point are distinct, so the order of the inner range does not matter.
RECURSIVE reduceLeaf(_, _, _)
reduceLeaf(points, index, value) ==
    IF index >= Len(points) THEN value
    ELSE LET pv == points[index + 1].Value
             nv == [k \in DOMAIN value \cup DOMAIN pv |->
                     IF k \notin DOMAIN pv THEN value[k]
                     ELSE IF k \notin DOMAIN value
                     THEN [sum |-> pv[k], max |-> pv[k], min |-> pv[k],
                           first |-> pv[k], last |-> pv[k], count |-> 1]
                     ELSE LET vk == value[k]
                              v  == pv[k]
                          IN [sum   |-> vk.sum + v,
                              max   |-> IF vk.max < v THEN v ELSE vk.max,
                              min   |-> IF ~(vk.max < v) /\ vk.min > v THEN v ELSE vk.min,
                              first |-> vk.first,
                              last  |-> IF index = Len(points) - 1 THEN v ELSE vk.last,
                              count |-> U16(vk.count + 1)]]
         IN reduceLeaf(points, index + 1, nv)

\* reduce on an interior node, lines 346-365: the fold over the cached
\* values of the pointers from the index-th on.
RECURSIVE reduceInterior(_, _, _)
reduceInterior(pointers, index, value) ==
    IF index >= Len(pointers) THEN value
    ELSE LET pv == pointers[index + 1].value
             nv == [k \in DOMAIN value \cup DOMAIN pv |->
                     IF k \notin DOMAIN pv THEN value[k]
                     ELSE IF k \notin DOMAIN value THEN pv[k]
                     ELSE LET vk == value[k]
                              v  == pv[k]
                          IN [sum   |-> vk.sum + v.sum,
                              max   |-> IF vk.max < v.max THEN v.max ELSE vk.max,
                              min   |-> IF vk.min < v.min THEN v.min ELSE vk.min,
                              first |-> vk.first,
                              last  |-> IF index = Len(pointers) - 1 THEN v.last ELSE vk.last,
                              count |-> U16(vk.count + v.count)]]
         IN reduceInterior(pointers, index + 1, nv)

\* n.reduce(): the node as reduce leaves it (the cached value of the dirty
\* pointer is refreshed, line 345), the map it returns, and the panic it
\* ends in, if any.
RECURSIVE reduce(_)
reduce(n) ==
    IF n = NilNode
    THEN [node |-> n, value |-> EmptyMap, panic |-> PanicNil]
    ELSE IF n.isLeaf
    THEN [node |-> n, value |-> reduceLeaf(n.points, 0, EmptyMap), panic |-> None]
    ELSE IF n.dirty < 0 \/ n.dirty >= Len(n.pointers)
    THEN [node |-> n, value |-> EmptyMap, panic |-> PanicIndex]
    ELSE LET d  == n.dirty + 1
             r  == reduce(n.pointers[d].pointer)
         IN IF r.panic # None
            THEN [node  |-> [n EXCEPT !.pointers[d].pointer = r.node],
                  value |-> EmptyMap, panic |-> r.panic]
            ELSE LET m == [n EXCEPT !.pointers[d].pointer = r.node,
                                    !.pointers[d].value = r.value]
                 IN [node  |-> m,
                     value |-> reduceInterior(m.pointers, 0, EmptyMap),
                     panic |-> None]

(***************************************************************************)
(* SpecNode: reduce applied to one node, a leaf or an interior node.       *)
(***************************************************************************)

\* The longest points sequence of a leaf, the longest pointers sequence of
\* an interior node.
MaxPoints == 3
MaxPointers == 3

\* The metric maps of the points.
PointValues ==
    {EmptyMap, "y" :> 5}
        \cup {"x" :> v : v \in {10, 20, 30}}
        \cup {("x" :> v) @@ ("y" :> 5) : v \in {10, 20, 30}}

\* A leaf with the metric maps vs: its points are sorted by timestamp.
Leaf(vs) ==
    [newLeafNode EXCEPT
        !.level = LevelDay,
        !.points = [i \in 1..Len(vs) |-> [Timestamp |-> i, Value |-> vs[i]]]]

Val(sum, max, min, first, lst, count) ==
    [sum |-> sum, max |-> max, min |-> min, first |-> first, last |-> lst, count |-> count]

\* The values a pointer may have cached, and the children it may own.
CachedValues ==
    {EmptyMap, "x" :> Val(30, 20, 10, 10, 20, 2), "x" :> Val(5, 5, 5, 5, 5, 1)}
Children ==
    {NilNode,
     [newLeafNode EXCEPT !.level = LevelDay,
                         !.points = <<[Timestamp |-> 1, Value |-> "x" :> 7]>>],
     [newLeafNode EXCEPT !.level = LevelDay,
                         !.points = <<[Timestamp |-> 1, Value |-> "x" :> 40],
                                      [Timestamp |-> 2, Value |-> "y" :> 5]>>]}

\* An interior node whose pointers have the cached values vs and the
\* children cs, with the dirty marker d.
Interior(vs, cs, d) ==
    [newInteriorNode EXCEPT
        !.level = LevelMonth,
        !.dirty = d,
        !.pointers = [i \in 1..Len(vs) |-> [key |-> i, pos |-> 0,
                                            pointer |-> cs[i], value |-> vs[i]]]]

NotReduced == [done |-> FALSE, node |-> NilNode, value |-> EmptyMap, panic |-> None]

NotNode == TxIdle /\ MmapIdle /\ MetaIdle /\ TreeIdle /\ CodecIdle /\ OpenIdle
KeepNotNode == UNCHANGED <<txVars, mmapVars, metaVars, treeVars, codecVars, openVars>>

\* Any leaf of up to MaxPoints points; any interior node of up to
\* MaxPointers pointers with any dirty marker from -1 (newInteriorNode) on.
InitNode ==
    /\ \/ \E n \in 0..MaxPoints : \E vs \in [1..n -> PointValues] : rnode = Leaf(vs)
       \/ \E n \in 0..MaxPointers :
             \E vs \in [1..n -> CachedValues], cs \in [1..n -> Children], d \in -1..(n - 1) :
                rnode = Interior(vs, cs, d)
    /\ rres = NotReduced
    /\ NotNode

\* rnode.reduce()
Reduce ==
    /\ ~rres.done
    /\ LET r == reduce(rnode)
       IN rres' = [done |-> TRUE, node |-> r.node, value |-> r.value, panic |-> r.panic]
    /\ UNCHANGED rnode
    /\ KeepNotNode

NextNode == Reduce

SpecNode == InitNode /\ [][NextNode]_vars

\* The entries for key k of the maps of a sequence, in order.
RECURSIVE Carriers(_, _)
Carriers(maps, k) ==
    IF maps = <<>> THEN <<>>
    ELSE (IF k \in DOMAIN Head(maps) THEN <<Head(maps)[k]>> ELSE <<>>)
            \o Carriers(Tail(maps), k)

RECURSIVE SeqSum(_)
SeqSum(q) == IF q = <<>> THEN 0 ELSE Head(q) + SeqSum(Tail(q))

SeqMax(q) == CHOOSE m \in {q[i] : i \in 1..Len(q)} : \A i \in 1..Len(q) : q[i] <= m
SeqMin(q) == CHOOSE m \in {q[i] : i \in 1..Len(q)} : \A i \in 1..Len(q) : m <= q[i]

Keys(maps) == UNION {DOMAIN maps[i] : i \in 1..Len(maps)}

\* The rollup of key k over the points of a leaf, as C5 states it.
LeafRollup(points, k) ==
    LET vs == Carriers([i \in 1..Len(points) |-> points[i].Value], k)
    IN Val(SeqSum(vs), SeqMax(vs), SeqMin(vs), vs[1], vs[Len(vs)], Len(vs))

\* The rollup of key k over the cached values of the pointers of an
\* interior node, as C6 states it.
InteriorRollup(pointers, k) ==
    LET vs == Carriers([i \in 1..Len(pointers) |-> pointers[i].value], k)
        sums   == [i \in 1..Len(vs) |-> vs[i].sum]
        maxs   == [i \in 1..Len(vs) |-> vs[i].max]
        mins   == [i \in 1..Len(vs) |-> vs[i].min]
        counts == [i \in 1..Len(vs) |-> vs[i].count]
    IN Val(SeqSum(sums), SeqMax(maxs), SeqMin(mins), vs[1].first, vs[Len(vs)].last,
           SeqSum(counts))

\* C5: reduce() on a leaf yields, for every metric key k, sum, max, min and
\* count of k's values over the points carrying k, first = k's value in the
\* earliest and last = k's value in the latest point carrying k. TLC finds
\* it violated: last is k's value in the last point of the leaf if that
\* point carries k, and else stays k's value in the earliest point.
C5_AsStated ==
    (rres.done /\ rnode.isLeaf) =>
        /\ rres.panic = None
        /\ DOMAIN rres.value = Keys([i \in 1..Len(rnode.points) |-> rnode.points[i].Value])
        /\ \A k \in DOMAIN rres.value : rres.value[k] = LeafRollup(rnode.points, k)

\* C6: reduce() on an interior node returns, for every metric key k, the
\* fold of the cached values of all its pointers: sums and counts added,
\* the maximum of max, the minimum of min, first of the first and last of
\* the last pointer carrying k. TLC finds it violated: min is the largest of
\* the children's min.
C6_AsStated ==
    (rres.done /\ ~rnode.isLeaf /\ rres.panic = None) =>
        LET maps == [i \in 1..Len(rres.node.pointers) |-> rres.node.pointers[i].value]
        IN /\ DOMAIN rres.value = Keys(maps)
           /\ \A k \in DOMAIN rres.value :
                 rres.value[k] = InteriorRollup(rres.node.pointers, k)

(***************************************************************************)
(* SpecTree: put, insertPoint, insertNode, expand and flush on the tree    *)
(* under db.root.                                                          *)
(*                                                                         *)
(* Time is not among the sources; it is modelled from the specification:   *)
(* a sample's natural bucket level is the granularity of its timestamp     *)
(* and Timestamp(level) truncates the timestamp to that granularity. The   *)
(* calendar is reduced: timestamps count days, a month has TicksPerMonth   *)
(* days, a year TicksPerYear.                                              *)
(***************************************************************************)

TicksPerMonth == 2
TicksPerYear  == 4

\* t.Level()
TimeLevel(ts) ==
    IF ts % TicksPerMonth # 0 THEN LevelDay
    ELSE IF ts % TicksPerYear # 0 THEN LevelMonth
    ELSE LevelYear

\* t.Timestamp(level).UnixNano()
TimeTimestamp(ts, level) ==
    IF level <= LevelYear THEN ts - (ts % TicksPerYear)
    ELSE IF level = LevelMonth THEN ts - (ts % TicksPerMonth)
    ELSE ts

\* sort.Search(n, func(i) bool { return keys[i] >= x }): the binary search
\* of the standard library, i and j its loop variables (indices from 0).
RECURSIVE Search(_, _, _, _)
Search(keys, x, i, j) ==
    IF i >= j THEN i
    ELSE LET h == (i + j) \div 2
         IN IF ~(keys[h + 1] >= x) THEN Search(keys, x, h + 1, j)
            ELSE Search(keys, x, i, h)

\* append(q, _); copy(q[index+1:], q[index:]); q[index] = e
InsertAt(q, index, e) ==
    SubSeq(q, 1, index) \o <<e>> \o SubSeq(q, index + 1, Len(q))

\* n.insertPoint(t, value): the node it leaves and the panic it ends in.
insertPoint(n, ts, value) ==
    LET index == Search([i \in 1..Len(n.points) |-> n.points[i].Timestamp],
                        ts, 0, Len(n.points))
    IN IF index >= Len(n.points)
       THEN [node |-> n, panic |-> PanicIndex]
       ELSE IF n.points[index + 1].Timestamp = ts
       THEN [node |-> [n EXCEPT !.points[index + 1].Value = value], panic |-> None]
       ELSE [node  |-> [n EXCEPT !.points =
                            InsertAt(n.points, index, [Timestamp |-> ts, Value |-> value])],
             panic |-> None]

\* n.insertNode(t, value): the node it leaves and the panic it ends in.
RECURSIVE insertNode(_, _, _)
insertNode(n, ts, value) ==
    IF ~(TimeLevel(ts) \div 4 >= n.level)
    THEN [node |-> n, panic |-> PanicAssert]
    ELSE LET child ==
               IF TimeLevel(ts) \div 4 = n.level
               THEN [node  |-> [newLeafNode EXCEPT
                                   !.level = U16(n.level * 2),
                                   !.points = <<[Timestamp |-> ts, Value |-> value]>>],
                     panic |-> None]
               ELSE insertNode([newInteriorNode EXCEPT !.level = U16(n.level * 2)],
                               ts, value)
             index == Search([i \in 1..Len(n.pointers) |-> n.pointers[i].key],
                             ts, 0, Len(n.pointers))
             np == [key     |-> TimeTimestamp(ts, U16(n.level * 2)),
                    pos     |-> 0,
                    pointer |-> child.node,
                    value   |-> EmptyMap]
         IN IF child.panic # None
            THEN [node |-> n, panic |-> child.panic]
            ELSE IF \/ Len(n.pointers) = 0
                    \/ index >= Len(n.pointers)
                    \/ n.pointers[index + 1].key # ts
            THEN [node  |-> [n EXCEPT !.pointers = InsertAt(n.pointers, index, np),
                                      !.dirty = index],
                  panic |-> None]
            ELSE [node  |-> [n EXCEPT !.pointers[index + 1] = np, !.dirty = index],
                  panic |-> None]

\* The node at the end of a path of pointer indices (from 1) below n.
RECURSIVE GetAt(_, _)
GetAt(n, path) ==
    IF path = <<>> THEN n
    ELSE GetAt(n.pointers[Head(path)].pointer, Tail(path))

\* n with the node at the end of the path replaced by m.
RECURSIVE SetAt(_, _, _)
SetAt(n, path, m) ==
    IF path = <<>> THEN m
    ELSE [n EXCEPT !.pointers[Head(path)].pointer =
                        SetAt(n.pointers[Head(path)].pointer, Tail(path), m)]

\* The paths to the nodes n owns, n itself included.
RECURSIVE Paths(_)
Paths(n) ==
    {<<>>} \cup UNION {{<<i>> \o p : p \in Paths(n.pointers[i].pointer)}
                       : i \in {j \in 1..Len(n.pointers) : n.pointers[j].pointer # NilNode}}

\* A mutation of put: db.root.reduce() is left out.
put_noReduce(rt, path, ts, value) ==
    LET n   == GetAt(rt, path)
        ins == IF n.isLeaf THEN insertPoint(n, ts, value) ELSE insertNode(n, ts, value)
    IN IF ins.panic # None
       THEN [root |-> rt, panic |-> ins.panic]
       ELSE [root |-> SetAt(rt, path, ins.node), panic |-> None]

\* n.put(t, value) for the node n at the path below db.root rt: db.root as
\* put leaves it and the panic it ends in.
put(rt, path, ts, value) ==
    LET n   == GetAt(rt, path)
        ins == IF n.isLeaf THEN insertPoint(n, ts, value) ELSE insertNode(n, ts, value)
    IN IF ins.panic # None
       THEN [root |-> rt, panic |-> ins.panic]
       ELSE LET r == reduce(SetAt(rt, path, ins.node))
            IN [root |-> r.node, panic |-> r.panic]

\* n.db.writeChunk(nodeBytes), seen from flush: oks are the outcomes of the
\* writes to come (a write beyond them succeeds), pos is the position the
\* next chunk gets. flush turns a failed write into position 0.
writeChunk(oks, pos) ==
    IF oks = <<>> \/ Head(oks)
    THEN [ret |-> pos, oks |-> IF oks = <<>> THEN oks ELSE Tail(oks), pos |-> pos + 1]
    ELSE [ret |-> 0, oks |-> Tail(oks), pos |-> pos]

\* n.flush(): the node it leaves, the position it returns, the write
\* outcomes and the position left for later writes, the panic it ends in.
RECURSIVE flush(_, _, _)
flush(n, oks, pos) ==
    IF n = NilNode
    THEN [node |-> n, ret |-> 0, oks |-> oks, pos |-> pos, panic |-> PanicNil]
    ELSE IF n.isLeaf
    THEN LET w == writeChunk(oks, pos)
         IN [node |-> n, ret |-> w.ret, oks |-> w.oks, pos |-> w.pos, panic |-> None]
    ELSE IF n.dirty < 0 \/ n.dirty >= Len(n.pointers)
    THEN [node |-> n, ret |-> 0, oks |-> oks, pos |-> pos, panic |-> PanicIndex]
    ELSE LET d == n.dirty + 1
             c == flush(n.pointers[d].pointer, oks, pos)
             m == [n EXCEPT !.pointers[d].pointer = c.node, !.pointers[d].pos = c.ret]
             w == writeChunk(c.oks, c.pos)
         IN IF c.panic # None
            THEN [node |-> [n EXCEPT !.pointers[d].pointer = c.node],
                  ret |-> 0, oks |-> c.oks, pos |-> c.pos, panic |-> c.panic]
            ELSE [node |-> m, ret |-> w.ret, oks |-> w.oks, pos |-> w.pos, panic |-> None]

\* The loop of expand with children of the level of the node itself.
RECURSIVE expandLoop_noShift(_, _, _, _)
expandLoop_noShift(n, i, oks, pos) ==
    IF i > Len(n.points) THEN [node |-> n, oks |-> oks, pos |-> pos]
    ELSE LET leafNode == [newLeafNode EXCEPT !.level = n.level,
                                             !.points = <<n.points[i]>>]
             f  == flush(leafNode, oks, pos)
             np == [key |-> n.points[i].Timestamp, pos |-> f.ret,
                    pointer |-> f.node, value |-> EmptyMap]
         IN expandLoop_noShift([n EXCEPT !.pointers = Append(n.pointers, np)],
                               i + 1, f.oks, f.pos)

\* The loop of expand, lines 300-311, from the i-th point on (i from 1).
RECURSIVE expandLoop(_, _, _, _)
expandLoop(n, i, oks, pos) ==
    IF i > Len(n.points) THEN [node |-> n, oks |-> oks, pos |-> pos]
    ELSE LET leafNode == [newLeafNode EXCEPT !.level = U16(n.level * 2),
                                             !.points = <<n.points[i]>>]
             f  == flush(leafNode, oks, pos)
             np == [key |-> n.points[i].Timestamp, pos |-> f.ret,
                    pointer |-> f.node, value |-> EmptyMap]
         IN expandLoop([n EXCEPT !.pointers = Append(n.pointers, np)], i + 1, f.oks, f.pos)

\* n.expand(): the node it leaves, and what is left for later writes.
expand(n, oks, pos) ==
    expandLoop([n EXCEPT !.isLeaf = FALSE], 1, oks, pos)

\* The timestamps of the samples and their metric maps.
MaxTS == 3
MaxOps == 3
Timestamps == 0..MaxTS
MetricMaps == {"x" :> 1, "x" :> 2}

\* `last` is the last operation on the tree: what was called with which
\* arguments, the tree before it, the outcomes of its writes, what it
\* returned, the panic it ended in, and whether every operation up to it
\* was a put on the root.
NoOp == [op |-> "none", path |-> <<>>, ts |-> 0, value |-> EmptyMap,
         pre |-> NilNode, oks |-> <<>>, ret |-> 0, panic |-> None, rootPuts |-> TRUE]

NotTree == TxIdle /\ MmapIdle /\ MetaIdle /\ NodeIdle /\ CodecIdle /\ OpenIdle
KeepNotTree == UNCHANGED <<txVars, mmapVars, metaVars, nodeVars, codecVars, openVars>>

\* The empty tree: db.root is an interior node of the root level.
InitTree ==
    /\ root = [newInteriorNode EXCEPT !.level = LevelRoot]
    /\ nextPos = 1
    /\ last = NoOp
    /\ nops = 0
    /\ NotTree

\* n.put(t, value) on a node n of the tree. A panic ends the program.
Put(ts, value) ==
    \E path \in Paths(root) :
        /\ last.panic = None
        /\ nops < MaxOps
        /\ LET r == put(root, path, ts, value)
           IN /\ root' = r.root
              /\ last' = [op |-> "put", path |-> path, ts |-> ts, value |-> value,
                          pre |-> root, oks |-> <<>>, ret |-> 0, panic |-> r.panic,
                          rootPuts |-> last.rootPuts /\ last.op # "flush" /\ path = <<>>]
        /\ nops' = nops + 1
        /\ UNCHANGED nextPos
        /\ KeepNotTree

\* n.expand() on a leaf n of the tree; oks are the outcomes of its writes.
Expand ==
    \E path \in Paths(root) :
        \E oks \in [1..Len(GetAt(root, path).points) -> BOOLEAN] :
            /\ last.panic = None
            /\ nops < MaxOps
            /\ GetAt(root, path).isLeaf
            /\ LET e == expand(GetAt(root, path), oks, nextPos)
               IN /\ root' = SetAt(root, path, e.node)
                  /\ nextPos' = e.pos
            /\ last' = [op |-> "expand", path |-> path, ts |-> 0, value |-> EmptyMap,
                        pre |-> root, oks |-> oks, ret |-> 0, panic |-> None,
                        rootPuts |-> FALSE]
            /\ nops' = nops + 1
            /\ KeepNotTree

\* The nodes on the way of the dirty markers from n down: the writes of
\* n.flush().
RECURSIVE DirtyChainLen(_)
DirtyChainLen(n) ==
    IF n = NilNode THEN 0
    ELSE IF n.isLeaf \/ n.dirty < 0 \/ n.dirty >= Len(n.pointers) THEN 1
    ELSE 1 + DirtyChainLen(n.pointers[n.dirty + 1].pointer)

\* db.root.flush(); oks are the outcomes of its writes, the deepest node
\* first.
Flush ==
    \E oks \in [1..DirtyChainLen(root) -> BOOLEAN] :
        /\ last.panic = None
        /\ nops < MaxOps
        /\ LET f == flush(root, oks, nextPos)
           IN /\ root' = f.node
              /\ nextPos' = f.pos
              /\ last' = [op |-> "flush", path |-> <<>>, ts |-> 0, value |-> EmptyMap,
                          pre |-> root, oks |-> oks, ret |-> f.ret, panic |-> f.panic,
                          rootPuts |-> last.rootPuts /\ last.op # "flush"]
        /\ nops' = nops + 1
        /\ KeepNotTree

NextTree ==
    \/ \E ts \in Timestamps : \E value \in MetricMaps : Put(ts, value)
    \/ Expand
    \/ Flush

SpecTree == InitTree /\ [][NextTree]_vars

\* The metric maps stored for timestamp ts in the leaves below n, in order.
RECURSIVE Entries(_, _)
Entries(n, ts) ==
    IF n = NilNode THEN <<>>
    ELSE IF n.isLeaf
    THEN LET hits == SelectSeq(n.points, LAMBDA p : p.Timestamp = ts)
         IN [i \in 1..Len(hits) |-> hits[i].Value]
    ELSE LET RECURSIVE Below(_)
             Below(i) == IF i > Len(n.pointers) THEN <<>>
                         ELSE Entries(n.pointers[i].pointer, ts) \o Below(i + 1)
         IN Below(1)

\* The keys of a node: the timestamps of its points (leaf) or the keys of
\* its pointers (interior).
NodeKeys(n) ==
    IF n.isLeaf THEN [i \in 1..Len(n.points) |-> n.points[i].Timestamp]
    ELSE [i \in 1..Len(n.pointers) |-> n.pointers[i].key]

StrictlyAscending(q) == \A i \in 1..(Len(q) - 1) : q[i] < q[i + 1]

\* C3: after a put of a sample at timestamp T with metric map M, the tree
\* holds exactly one entry for T and its value is M, also when T had an
\* entry before (overwrite, not duplicate). TLC finds it violated: a second
\* put at T through an interior node adds a second child for T.
C3_AsStated ==
    (last.op = "put" /\ last.panic = None) => Entries(root, last.ts) = <<last.value>>

\* C4: after any sequence of puts starting from the empty tree, in every
\* node the points or pointers are in strictly ascending key order, no key
\* twice. TLC finds it violated: two samples of one bucket give two
\* pointers with the key of the bucket.
C4_AsStated ==
    \A path \in Paths(root) : StrictlyAscending(NodeKeys(GetAt(root, path)))

\* C8: expand() on a leaf with N points leaves an interior node with
\* exactly N pointers in the order of the points, the i-th keyed by the
\* i-th point's timestamp and owning a leaf of level node.level << 1 whose
\* only point is that point; the children hold N samples in total.
C8_Expand ==
    last.op = "expand" =>
        LET before == GetAt(last.pre, last.path)
            after  == GetAt(root, last.path)
            N      == Len(before.points)
        IN /\ before.isLeaf
           /\ ~after.isLeaf
           /\ Len(after.pointers) = N
           /\ \A i \in 1..N :
                 /\ after.pointers[i].key = before.points[i].Timestamp
                 /\ after.pointers[i].pointer # NilNode
                 /\ after.pointers[i].pointer.isLeaf
                 /\ after.pointers[i].pointer.level = U16(before.level * 2)
                 /\ after.pointers[i].pointer.points = <<before.points[i]>>
           /\ SeqSum([i \in 1..Len(after.pointers) |->
                         Len(after.pointers[i].pointer.points)]) = N

\* A leaf with two points or more was expanded.
C8_Witness ==
    /\ last.op = "expand"
    /\ Len(GetAt(last.pre, last.path).points) >= 2
    /\ Len(GetAt(root, last.path).pointers) >= 2

\* The node a put was called on, before and after it.
PutBefore == GetAt(last.pre, last.path)
PutAfter  == GetAt(root, last.path)

\* The leaf at the end of the dirty markers below n.
RECURSIVE DirtyLeaf(_)
DirtyLeaf(n) ==
    IF n = NilNode \/ n.isLeaf THEN n
    ELSE IF n.dirty < 0 \/ n.dirty >= Len(n.pointers) THEN NilNode
    ELSE DirtyLeaf(n.pointers[n.dirty + 1].pointer)

\* The interior nodes on the way of the dirty markers below n, n excluded.
RECURSIVE DirtyInteriors(_)
DirtyInteriors(n) ==
    IF n = NilNode \/ n.isLeaf \/ n.dirty < 0 \/ n.dirty >= Len(n.pointers) THEN 0
    ELSE LET c == n.pointers[n.dirty + 1].pointer
         IN IF c = NilNode \/ c.isLeaf THEN 0 ELSE 1 + DirtyInteriors(c)

\* The levels strictly between l and L.
LevelsBetween(l, L) == {x \in Levels : l < x /\ x < L}

\* C13: insertNode ends in the assertion failure, with no node changed,
\* exactly when the sample's bucket level is below the level of the node;
\* a sample whose bucket level is at least the node's level never meets
\* the assertion. TLC finds it violated: a year-level sample (level 2) put
\* on the root (level 1) fails the assertion.
C13_AsStated ==
    (last.op = "put" /\ ~PutBefore.isLeaf) =>
        /\ (last.panic = PanicAssert) <=> (TimeLevel(last.ts) < PutBefore.level)
        /\ last.panic = PanicAssert => root = last.pre

\* C14: a sample of bucket level L inserted at an interior node of level l
\* (L at least l << 1) ends in a leaf of level L: directly under the node
\* without a new interior node if L = l << 1, otherwise below one new
\* interior node per level between; every child has its parent's level
\* doubled, one of the ten levels. TLC finds it violated: a month-level
\* sample (level 4) put on the root ends in a leaf of level 2.
C14_AsStated ==
    /\ (last.op = "put" /\ ~PutBefore.isLeaf
            /\ TimeLevel(last.ts) >= U16(PutBefore.level * 2)) =>
        /\ last.panic = None
        /\ DirtyLeaf(PutAfter) # NilNode
        /\ DirtyLeaf(PutAfter).points = <<[Timestamp |-> last.ts, Value |-> last.value]>>
        /\ DirtyLeaf(PutAfter).level = TimeLevel(last.ts)
        /\ DirtyInteriors(PutAfter) =
               Cardinality(LevelsBetween(PutBefore.level, TimeLevel(last.ts)))
    /\ \A path \in Paths(root) :
          \A i \in 1..Len(GetAt(root, path).pointers) :
              LET parent == GetAt(root, path)
                  child  == parent.pointers[i].pointer
              IN child # NilNode =>
                    child.level = U16(parent.level * 2) /\ child.level \in Levels

\* The timestamps with a point in a leaf below n.
Stored(n) == {ts \in Timestamps : Entries(n, ts) # <<>>}

\* The key insertNode gives the child of n that takes a sample at ts.
BucketKey(n, ts) == TimeTimestamp(ts, U16(n.level * 2))

\* C15: a put on the root of a sample with a timestamp not yet in the tree
\* loses no sample: every timestamp stored before and the new one are in
\* exactly one leaf afterwards; and if the root had a child for the
\* sample's bucket the sample goes into that child and the root gets no
\* further pointer. TLC finds it violated: the second sample of a bucket
\* gets a new child beside the first.
C15_AsStated ==
    (last.op = "put" /\ last.path = <<>> /\ last.panic = None
        /\ last.ts \notin Stored(last.pre)) =>
        /\ Stored(root) = Stored(last.pre) \cup {last.ts}
        /\ \A ts \in Stored(root) : Len(Entries(root, ts)) = 1
        /\ (\E i \in 1..Len(last.pre.pointers) :
                last.pre.pointers[i].key = BucketKey(last.pre, last.ts))
              => Len(root.pointers) = Len(last.pre.pointers)

\* The pointers on the way of the dirty markers below n carry the value
\* reduce gives for the subtree they own.
RECURSIVE DirtyPathFresh(_)
DirtyPathFresh(n) ==
    IF n.isLeaf THEN TRUE
    ELSE /\ n.dirty >= 0 /\ n.dirty < Len(n.pointers)
         /\ LET p == n.pointers[n.dirty + 1]
            IN /\ p.pointer # NilNode
               /\ reduce(p.pointer).panic = None
               /\ p.value = reduce(p.pointer).value
               /\ DirtyPathFresh(p.pointer)

\* q without its element at index i (from 1).
Without(q, i) == SubSeq(q, 1, i - 1) \o SubSeq(q, i + 1, Len(q))

\* C16: after a put on the root returns, the dirty markers from the root
\* lead to the leaf that received the sample, every pointer on that way
\* carries as cached value what reduce gives for the subtree it owns, and
\* every other pointer of the root, with all below it, is as it was
\* before the put.
C16_PutRefreshes ==
    (last.op = "put" /\ last.path = <<>> /\ last.panic = None) =>
        /\ DirtyLeaf(root) # NilNode
        /\ \E i \in 1..Len(DirtyLeaf(root).points) :
              DirtyLeaf(root).points[i] = [Timestamp |-> last.ts, Value |-> last.value]
        /\ DirtyPathFresh(root)
        /\ root.pointers[root.dirty + 1].value # EmptyMap
        /\ IF Len(root.pointers) = Len(last.pre.pointers)
           THEN \A i \in 1..Len(root.pointers) :
                    i # root.dirty + 1 => root.pointers[i] = last.pre.pointers[i]
           ELSE Without(root.pointers, root.dirty + 1) = last.pre.pointers

\* A put on the root of a day-level sample into a tree that had two
\* children: the way to the new leaf has two pointers.
C16_Witness ==
    /\ last.op = "put" /\ last.path = <<>> /\ last.panic = None
    /\ Len(last.pre.pointers) >= 2
    /\ ~root.pointers[root.dirty + 1].pointer.isLeaf
    /\ DirtyLeaf(root).points = <<[Timestamp |-> last.ts, Value |-> last.value]>>

\* C17: insertPoint completes on every leaf and timestamp: on an exact
\* match the value map is overwritten and the length stays, otherwise one
\* point is inserted where the order is kept and the length grows by one.
\* TLC finds it violated: a timestamp above all points of the leaf ends
\* in an index out of range.
C17_AsStated ==
    (last.op = "put" /\ PutBefore.isLeaf) =>
        /\ last.panic = None
        /\ \A i \in 1..(Len(PutAfter.points) - 1) :
              PutAfter.points[i].Timestamp <= PutAfter.points[i + 1].Timestamp
        /\ \E i \in 1..Len(PutAfter.points) :
              PutAfter.points[i] = [Timestamp |-> last.ts, Value |-> last.value]
        /\ Len(PutAfter.points) =
              IF \E i \in 1..Len(PutBefore.points) : PutBefore.points[i].Timestamp = last.ts
              THEN Len(PutBefore.points)
              ELSE Len(PutBefore.points) + 1

\* On the way of the dirty markers from n down, every interior node has a
\* dirty marker that is an index of its pointers, and that pointer owns a
\* node.
RECURSIVE DirtyChainValid(_)
DirtyChainValid(n) ==
    IF n.isLeaf THEN TRUE
    ELSE /\ 0 <= n.dirty /\ n.dirty < Len(n.pointers)
         /\ n.pointers[n.dirty + 1].pointer # NilNode
         /\ DirtyChainValid(n.pointers[n.dirty + 1].pointer)

\* C18: whenever flush() or reduce() runs on an interior node, the node's
\* dirty marker is an index of its pointers whose pointer owns a node, in
\* every reachable state, an interior node without inserts included. TLC
\* finds it violated: flush on the empty root reads pointers[-1].
C18_AsStated ==
    /\ last.op = "flush" => DirtyChainValid(last.pre) /\ last.panic = None
    /\ last.op = "put" => last.panic \notin {PanicNil}
    /\ (last.op = "put" /\ last.panic = None) => DirtyChainValid(root)

\* C19: a flush that returns a position other than zero has written every
\* node on the way of the dirty markers, and the position stored in the
\* pointer of the dirty child is not zero. TLC finds it violated: the
\* write of the child fails, the write of the parent succeeds.
C19_AsStated ==
    (last.op = "flush" /\ last.panic = None /\ ~last.pre.isLeaf /\ last.ret # 0) =>
        /\ \A i \in 1..Len(last.oks) : last.oks[i]
        /\ root.pointers[root.dirty + 1].pos # 0

\* The positions stored in the pointers of the tree below n.
RECURSIVE StoredPositions(_)
StoredPositions(n) ==
    IF n = NilNode \/ n.isLeaf THEN {}
    ELSE UNION {{n.pointers[i].pos} \cup StoredPositions(n.pointers[i].pointer)
                    : i \in 1..Len(n.pointers)}

\* C20: after puts on the root of the empty tree and then one flush of the
\* root whose writes all succeed, every child created by those puts has
\* been written and its pointer carries the position. TLC finds it
\* violated: of two children created by two puts, the flush writes the one
\* the dirty marker names.
C20_AsStated ==
    (last.op = "flush" /\ last.rootPuts /\ last.panic = None /\ last.ret # 0
        /\ \A i \in 1..Len(last.oks) : last.oks[i]) =>
        0 \notin StoredPositions(root)

(***************************************************************************)
(* SpecCodec: node.encode and DB.decodeNode.                               *)
(*                                                                         *)
(* Bytes are the numbers 0..255. The helpers encodeUint16, encodeInt64,    *)
(* encodeFloat64,                                                          *)
(* their decoders and the Point codec are not among the sources; they are  *)
(* modelled from the specification as fixed-width little-endian fields,    *)
(* a float64 standing for its bit pattern, and a Point as its timestamp    *)
(* followed by (16-bit key length, key, value) entries.                    *)
(***************************************************************************)

RECURSIVE BitAnd(_, _)
BitAnd(a, b) ==
    IF a = 0 \/ b = 0 THEN 0
    ELSE (a % 2) * (b % 2) + 2 * BitAnd(a \div 2, b \div 2)

RECURSIVE BitOr(_, _)
BitOr(a, b) ==
    IF a = 0 THEN b
    ELSE IF b = 0 THEN a
    ELSE (IF a % 2 = 1 \/ b % 2 = 1 THEN 1 ELSE 0) + 2 * BitOr(a \div 2, b \div 2)

\* What a decoder returns for eight bytes whose value is beyond the
\* integers of the model; no value of an in-memory node is negative.
OutOfRange == -1

encodeUint16(x) == <<x % 256, (x \div 256) % 256>>
decodeUint16(b) == b[1] + 256 * b[2]
encodeInt64(x) ==
    <<x % 256, (x \div 256) % 256, (x \div 65536) % 256, (x \div 16777216) % 256, 0, 0, 0, 0>>
decodeInt64(b) ==
    IF b[4] < 128 /\ \A i \in 5..8 : b[i] = 0
    THEN b[1] + 256 * b[2] + 65536 * b[3] + 16777216 * b[4]
    ELSE OutOfRange
encodeFloat64(x) == encodeInt64(x)
decodeFloat64(b) == decodeInt64(b)

\* A Go slice: the bytes lo..hi-1 (from 0) of the array arr; its capacity
\* reaches to the end of the array.
MkSlice(arr, n) == [arr |-> arr, lo |-> 0, hi |-> n]
BadSlice == [arr |-> <<>>, lo |-> 0, hi |-> -1]
SLen(s) == s.hi - s.lo
SCap(s) == Len(s.arr) - s.lo
IsBad(s) == s.hi < s.lo
\* s[a:b]: a slice expression panics when b exceeds the capacity.
Slice(s, a, b) ==
    IF ~IsBad(s) /\ 0 <= a /\ a <= b /\ b <= SCap(s)
    THEN [arr |-> s.arr, lo |-> s.lo + a, hi |-> s.lo + b]
    ELSE BadSlice
SBytes(s) == SubSeq(s.arr, s.lo + 1, s.hi)

PanicSlice == "panic: slice bounds out of range"

\* The largest length a 16-bit length field holds.
MaxUint16 == 65535

\* The metric keys of the model and []byte(k) for each: BigKey is a key of
\* 65536 bytes.
BigKey == "x...x"
BigKeyBytes == [i \in 1..(MaxUint16 + 1) |-> 120]
MetricKeys == {"", "x", "yy", BigKey}
KeyBytes(k) ==
    CASE k = ""     -> <<>>
      [] k = "x"    -> <<120>>
      [] k = "yy"   -> <<121, 121>>
      [] k = BigKey -> BigKeyBytes

\* string(b): the key with these bytes; every string that is no key of the
\* model is OtherKey.
OtherKey == "?"
StringOf(b) ==
    IF \E k \in MetricKeys : KeyBytes(k) = b
    THEN CHOOSE k \in MetricKeys : KeyBytes(k) = b
    ELSE OtherKey

\* The keys of a map in some order; a range over a map visits them in any
\* order, here this one or its reverse.
KeySeq(m, rev) ==
    LET n == Cardinality(DOMAIN m)
        q == CHOOSE f \in [1..n -> DOMAIN m] : {f[i] : i \in 1..n} = DOMAIN m
    IN IF rev THEN [i \in 1..n |-> q[n + 1 - i]] ELSE q

RECURSIVE Concat(_)
Concat(qs) == IF qs = <<>> THEN <<>> ELSE Head(qs) \o Concat(Tail(qs))

\* v.encode()
ValueEncode(v) ==
    encodeFloat64(v.sum) \o encodeFloat64(v.max) \o encodeFloat64(v.min)
        \o encodeFloat64(v.first) \o encodeFloat64(v.last) \o encodeUint16(v.count)

\* np.encode(), the map ranged over in the order given by rev.
PointerEncode(np, rev) ==
    LET ks == KeySeq(np.value, rev)
    IN encodeInt64(np.key) \o encodeInt64(np.pos)
        \o Concat([i \in 1..Len(ks) |->
                     LET keyBytes == KeyBytes(ks[i])
                     IN encodeUint16(U16(Len(keyBytes))) \o keyBytes
                            \o ValueEncode(np.value[ks[i]])])

\* point.encode()
PointEncode(pt, rev) ==
    LET ks == KeySeq(pt.Value, rev)
    IN encodeInt64(pt.Timestamp)
        \o Concat([i \in 1..Len(ks) |->
                     LET keyBytes == KeyBytes(ks[i])
                     IN encodeUint16(U16(Len(keyBytes))) \o keyBytes
                            \o encodeFloat64(pt.Value[ks[i]])])

\* n.encode(); revs[i] is the order of the range over the i-th map.
NodeEncode(n, revs) ==
    IF n.isLeaf
    THEN encodeUint16(BitOr(n.level, LeafChunkFlag))
            \o Concat([i \in 1..Len(n.points) |->
                         LET pointBytes == PointEncode(n.points[i], revs[i])
                         IN encodeUint16(U16(Len(pointBytes))) \o pointBytes])
    ELSE encodeUint16(BitOr(n.level, InteriorChunkFlag))
            \o Concat([i \in 1..Len(n.pointers) |->
                         LET pointerBytes == PointerEncode(n.pointers[i], revs[i])
                         IN encodeUint16(U16(Len(pointerBytes))) \o pointerBytes])

NoValue == Val(0, 0, 0, 0, 0, 0)

\* decodeValue with first and last exchanged.
decodeValue_swapped(valueBytes) ==
    IF IsBad(valueBytes) \/ SCap(valueBytes) < 42
    THEN [panic |-> PanicSlice, value |-> NoValue]
    ELSE LET F(a, b) == decodeFloat64(SBytes(Slice(valueBytes, a, b)))
         IN [panic |-> None,
             value |-> [sum |-> F(0, 8), max |-> F(8, 16), min |-> F(16, 24),
                        first |-> F(32, 40), last |-> F(24, 32),
                        count |-> decodeUint16(SBytes(Slice(valueBytes, 40, 42)))]]

\* decodeValue(valueBytes)
decodeValue(valueBytes) ==
    IF IsBad(valueBytes) \/ SCap(valueBytes) < 42
    THEN [panic |-> PanicSlice, value |-> NoValue]
    ELSE LET F(a, b) == decodeFloat64(SBytes(Slice(valueBytes, a, b)))
         IN [panic |-> None,
             value |-> [sum |-> F(0, 8), max |-> F(8, 16), min |-> F(16, 24),
                        first |-> F(24, 32), last |-> F(32, 40),
                        count |-> decodeUint16(SBytes(Slice(valueBytes, 40, 42)))]]

\* The loop of decodeNodePointer, lines 97-105.
RECURSIVE decodeNodePointerLoop(_, _, _)
decodeNodePointerLoop(npBytes, bufPos, value) ==
    IF ~(bufPos < SLen(npBytes)) THEN [panic |-> None, value |-> value]
    ELSE LET lenBytes  == Slice(npBytes, bufPos, bufPos + 2)
             keyLength == decodeUint16(SBytes(lenBytes))
             keyBytes  == Slice(npBytes, bufPos + 2, bufPos + 2 + keyLength)
             v         == decodeValue(Slice(npBytes, bufPos + 2 + keyLength,
                                            bufPos + 2 + keyLength + 42))
         IN IF IsBad(lenBytes) \/ IsBad(keyBytes) \/ v.panic # None
            THEN [panic |-> PanicSlice, value |-> value]
            ELSE decodeNodePointerLoop(
                    npBytes, bufPos + 2 + keyLength + 42,
                    [k \in DOMAIN value \cup {StringOf(SBytes(keyBytes))} |->
                        IF k = StringOf(SBytes(keyBytes)) THEN v.value ELSE value[k]])

NoPointer == [key |-> 0, pos |-> 0, pointer |-> NilNode, value |-> EmptyMap]

\* decodeNodePointer(npBytes)
decodeNodePointer(npBytes) ==
    IF IsBad(npBytes) \/ SCap(npBytes) < 16
    THEN [panic |-> PanicSlice, np |-> NoPointer]
    ELSE LET l == decodeNodePointerLoop(npBytes, 16, EmptyMap)
         IN [panic |-> l.panic,
             np |-> [key     |-> decodeInt64(SBytes(Slice(npBytes, 0, 8))),
                     pos     |-> decodeInt64(SBytes(Slice(npBytes, 8, 16))),
                     pointer |-> NilNode,
                     value   |-> l.value]]

\* The loop over the metrics of decodePoint.
RECURSIVE decodePointLoop(_, _, _)
decodePointLoop(ptBytes, bufPos, value) ==
    IF ~(bufPos < SLen(ptBytes)) THEN [panic |-> None, value |-> value]
    ELSE LET lenBytes  == Slice(ptBytes, bufPos, bufPos + 2)
             keyLength == decodeUint16(SBytes(lenBytes))
             keyBytes  == Slice(ptBytes, bufPos + 2, bufPos + 2 + keyLength)
             valBytes  == Slice(ptBytes, bufPos + 2 + keyLength, bufPos + 2 + keyLength + 8)
         IN IF IsBad(lenBytes) \/ IsBad(keyBytes) \/ IsBad(valBytes)
            THEN [panic |-> PanicSlice, value |-> value]
            ELSE decodePointLoop(
                    ptBytes, bufPos + 2 + keyLength + 8,
                    [k \in DOMAIN value \cup {StringOf(SBytes(keyBytes))} |->
                        IF k = StringOf(SBytes(keyBytes)) THEN decodeFloat64(SBytes(valBytes))
                        ELSE value[k]])

\* decodePoint(pointBytes)
decodePoint(ptBytes) ==
    IF IsBad(ptBytes) \/ SCap(ptBytes) < 8
    THEN [panic |-> PanicSlice, point |-> [Timestamp |-> 0, Value |-> EmptyMap]]
    ELSE LET l == decodePointLoop(ptBytes, 8, EmptyMap)
         IN [panic |-> l.panic,
             point |-> [Timestamp |-> decodeInt64(SBytes(Slice(ptBytes, 0, 8))),
                        Value |-> l.value]]

\* The loop of decodeLeafNode, lines 143-152.
RECURSIVE decodeLeafNodeLoop(_, _, _)
decodeLeafNodeLoop(nodeBytes, bufPos, n) ==
    IF ~(bufPos < SLen(nodeBytes)) THEN [panic |-> None, node |-> n]
    ELSE LET lenBytes    == Slice(nodeBytes, bufPos, bufPos + 2)
             pointLength == decodeUint16(SBytes(lenBytes))
             pt == decodePoint(Slice(nodeBytes, bufPos + 2, bufPos + 2 + pointLength))
         IN IF IsBad(lenBytes) \/ pt.panic # None
            THEN [panic |-> PanicSlice, node |-> n]
            ELSE decodeLeafNodeLoop(nodeBytes, bufPos + 2 + pointLength,
                                    [n EXCEPT !.points = Append(n.points, pt.point)])

\* The loop of decodeInteriorNode, lines 161-170.
RECURSIVE decodeInteriorNodeLoop(_, _, _)
decodeInteriorNodeLoop(nodeBytes, bufPos, n) ==
    IF ~(bufPos < SLen(nodeBytes)) THEN [panic |-> None, node |-> n]
    ELSE LET lenBytes      == Slice(nodeBytes, bufPos, bufPos + 2)
             pointerLength == decodeUint16(SBytes(lenBytes))
             p == decodeNodePointer(Slice(nodeBytes, bufPos + 2, bufPos + 2 + pointerLength))
         IN IF IsBad(lenBytes) \/ p.panic # None
            THEN [panic |-> PanicSlice, node |-> n]
            ELSE decodeInteriorNodeLoop(nodeBytes, bufPos + 2 + pointerLength,
                                        [n EXCEPT !.pointers = Append(n.pointers, p.np)])

\* db.decodeLeafNode(nodeBytes)
decodeLeafNode(nodeBytes) ==
    decodeLeafNodeLoop(
        nodeBytes, 2,
        [newLeafNode EXCEPT
            !.level = BitAnd(decodeUint16(SBytes(Slice(nodeBytes, 0, 2))), LevelFlag)])

\* db.decodeInteriorNode(nodeBytes)
decodeInteriorNode(nodeBytes) ==
    decodeInteriorNodeLoop(
        nodeBytes, 2,
        [newInteriorNode EXCEPT
            !.level = BitAnd(decodeUint16(SBytes(Slice(nodeBytes, 0, 2))), LevelFlag)])

\* db.decodeNode(nodeBytes)
decodeNode(nodeBytes) ==
    IF SCap(nodeBytes) < 2 THEN [panic |-> PanicSlice, node |-> NilNode]
    ELSE IF BitAnd(decodeUint16(SBytes(Slice(nodeBytes, 0, 2))), LeafFlag) = LeafChunkFlag
    THEN decodeLeafNode(nodeBytes)
    ELSE decodeInteriorNode(nodeBytes)

\* The longest points / pointers sequence of the nodes encoded.
MaxEntries == 2
\* Spare capacity (zero bytes) the decoder's input may have behind its end.
SpareCap == 64

CodecPointValues == {EmptyMap, "x" :> 10, ("x" :> 10) @@ ("yy" :> 300)}
CodecValues ==
    {EmptyMap,
     "x" :> Val(30, 20, 10, 10, 20, 2),
     ("x" :> Val(70000, 20, 10, 10, 20, 300)) @@ ("yy" :> Val(5, 5, 5, 5, 5, 1))}
CodecPositions == {0, 70000}

CodecLeaf(level, vs) ==
    [newLeafNode EXCEPT
        !.level = level,
        !.points = [i \in 1..Len(vs) |-> [Timestamp |-> 1000 * i, Value |-> vs[i]]]]

CodecInterior(level, vs, ps) ==
    [newInteriorNode EXCEPT
        !.level = level,
        !.pointers = [i \in 1..Len(vs) |-> [key |-> 1000 * i, pos |-> ps[i],
                                            pointer |-> NilNode, value |-> vs[i]]]]

NotDecoded == [done |-> FALSE, panic |-> None, node |-> NilNode]

NotCodec == TxIdle /\ MmapIdle /\ MetaIdle /\ TreeIdle /\ NodeIdle /\ OpenIdle
KeepNotCodec == UNCHANGED <<txVars, mmapVars, metaVars, treeVars, nodeVars, openVars>>

\* Any leaf or interior node of up to MaxEntries entries and any of the ten
\* levels, and two nodes with a metric key of 65536 bytes.
InitCodec ==
    /\ \/ \E level \in Levels, n \in 0..MaxEntries :
             \E vs \in [1..n -> CodecPointValues] : cnode = CodecLeaf(level, vs)
       \/ \E level \in Levels, n \in 0..MaxEntries :
             \E vs \in [1..n -> CodecValues], ps \in [1..n -> CodecPositions] :
                cnode = CodecInterior(level, vs, ps)
       \/ cnode = CodecLeaf(LevelDay, <<BigKey :> 10>>)
       \/ cnode = CodecInterior(LevelDay, <<BigKey :> Val(30, 20, 10, 10, 20, 2)>>, <<0>>)
    /\ clen = 0
    /\ cdec = NotDecoded
    /\ NotCodec

\* db.decodeNode(cnode.encode()): each map is ranged over in one of its
\* orders, and the slice handed to decodeNode has the given spare capacity.
EncodeDecode(spare) ==
    \E revs \in [1..(Len(cnode.points) + Len(cnode.pointers)) -> BOOLEAN] :
        /\ ~cdec.done
        /\ LET nodeBytes == NodeEncode(cnode, revs)
               d == decodeNode(MkSlice(nodeBytes \o [i \in 1..spare |-> 0], Len(nodeBytes)))
           IN /\ clen' = Len(nodeBytes)
              /\ cdec' = [done |-> TRUE, panic |-> d.panic, node |-> d.node]
        /\ UNCHANGED cnode
        /\ KeepNotCodec

NextCodec == \E spare \in {0, SpareCap} : EncodeDecode(spare)

SpecCodec == InitCodec /\ [][NextCodec]_vars

\* The decoded node d has the level, the kind and the points (leaf) or the
\* keys, positions and value maps of the pointers (interior) of n.
SameNode(n, d) ==
    /\ d # NilNode
    /\ d.level = n.level
    /\ d.isLeaf = n.isLeaf
    /\ IF n.isLeaf THEN d.points = n.points
       ELSE /\ Len(d.pointers) = Len(n.pointers)
            /\ \A i \in 1..Len(n.pointers) :
                  /\ d.pointers[i].key = n.pointers[i].key
                  /\ d.pointers[i].pos = n.pointers[i].pos
                  /\ d.pointers[i].value = n.pointers[i].value

\* Every point or pointer of n encodes to at most 65535 bytes.
FitsLengthFields(n) ==
    IF n.isLeaf
    THEN \A i \in 1..Len(n.points) : Len(PointEncode(n.points[i], FALSE)) <= MaxUint16
    ELSE \A i \in 1..Len(n.pointers) : Len(PointerEncode(n.pointers[i], FALSE)) <= MaxUint16

\* C7 as stated: for any node with a level among the ten constants,
\* decodeNode(n.encode()) returns a node with the same level, kind, points
\* or pointers (key, pos, value map).
C7_AsStated ==
    cdec.done => (cdec.panic = None /\ SameNode(cnode, cdec.node))

\* C7, amended: the round trip holds for every node with a level among
\* the ten constants each of whose points or pointers encodes to at most
\* 65535 bytes, the largest length the 16-bit length fields hold.
C7_RoundTrip ==
    (cdec.done /\ cnode.level \in Levels /\ FitsLengthFields(cnode))
        => (cdec.panic = None /\ SameNode(cnode, cdec.node))

\* An interior node with two pointers, one of them with two metrics, was
\* encoded and decoded.
C7_Witness ==
    /\ cdec.done
    /\ cdec.panic = None
    /\ ~cnode.isLeaf
    /\ Len(cnode.pointers) = 2
    /\ \E i \in 1..2 : Cardinality(DOMAIN cnode.pointers[i].value) = 2
    /\ SameNode(cnode, cdec.node)

(***************************************************************************)
(* SpecOpen: Open and DB.init on one data file.                            *)
(*                                                                         *)
(* The file is a sequence of pages of the operating system's page size,    *)
(* which does not change while the program runs.  A page is its header     *)
(* (id, flags, count) and, for a meta page, the bytes of its meta.  `disk` *)
(* is what a successful fdatasync has made durable.  Every system call of  *)
(* Open may fail; a failing WriteAt may have written any number of whole   *)
(* pages of the buffer.                                                    *)
(***************************************************************************)

\* The calls of Open on the file.
MaxOpens == 2

OsPageSizes == {4096, 16384, 65536}

metaPageFlag     == "metaPageFlag"
freelistPageFlag == "freelistPageFlag"
leafPageFlag     == "leafPageFlag"

ErrOpenFile == "open: error"
ErrStat     == "stat: error"
ErrWriteAt  == "writeAt: error"
ErrSync     == "fdatasync: error"
ErrMmap     == "mmap: error"
ErrFileSize == "file size too small"

\* The value of little-endian bytes.
RECURSIVE LEValue(_)
LEValue(b) == IF Len(b) = 0 THEN 0 ELSE b[1] + 256 * LEValue(Tail(b))

\* The fields of a meta that DB.init sets besides magic, version and txid.
MetaPageSize(m) == SubSeq(m, 9, 12)
MetaFreelist(m) == SubSeq(m, 17, 24)
MetaData(m)     == SubSeq(m, 25, 32)

\* A mutation of InitPages: both meta pages get transaction id 0.
InitPages_sameTxid(ps) ==
    << [id |-> 0, flags |-> metaPageFlag, count |-> 0, meta |-> NewMeta(ps, 0, TRUE)],
       [id |-> 1, flags |-> metaPageFlag, count |-> 0, meta |-> NewMeta(ps, 0, TRUE)],
       [id |-> 2, flags |-> freelistPageFlag, count |-> 0, meta |-> <<>>],
       [id |-> 3, flags |-> leafPageFlag, count |-> 0, meta |-> <<>>] >>

\* The buffer DB.init builds for page size ps: two meta pages, an empty
\* free-list page, an empty leaf page.
InitPages(ps) ==
    << [id |-> 0, flags |-> metaPageFlag, count |-> 0, meta |-> NewMeta(ps, 0, TRUE)],
       [id |-> 1, flags |-> metaPageFlag, count |-> 0, meta |-> NewMeta(ps, 1, TRUE)],
       [id |-> 2, flags |-> freelistPageFlag, count |-> 0, meta |-> <<>>],
       [id |-> 3, flags |-> leafPageFlag, count |-> 0, meta |-> <<>>] >>

\* db.page(id).meta() on the mapped file: the page at byte id * pageSize.
MappedMeta(id) == file[((id * dbPageSize) \div osPageSize) + 1].meta

NotOpen == TxIdle /\ MmapIdle /\ MetaIdle /\ TreeIdle /\ NodeIdle /\ CodecIdle
KeepNotOpen == UNCHANGED <<txVars, mmapVars, metaVars, treeVars, nodeVars, codecVars>>

InitOpen ==
    /\ NotOpen
    /\ opc = "idle"
    /\ osPageSize \in OsPageSizes
    /\ dbPageSize = 0
    /\ buf = <<>>
    /\ file = <<>>
    /\ disk = <<>>
    /\ initRet = None
    /\ openRet = None
    /\ opens = 0

\* Open is called: a new DB, and os.OpenFile.
Open_call(ok) ==
    /\ opc \in {"idle", "returned"}
    /\ opens < MaxOpens
    /\ opens' = opens + 1
    /\ dbPageSize' = 0
    /\ buf' = <<>>
    /\ initRet' = None
    /\ IF ok THEN opc' = "stat" /\ openRet' = None
             ELSE opc' = "returned" /\ openRet' = ErrOpenFile
    /\ UNCHANGED <<osPageSize, file, disk>>
    /\ KeepNotOpen

\* db.file.Stat() and the choice between init and reading the first page.
Open_stat(ok) ==
    /\ opc = "stat"
    /\ IF ~ok THEN opc' = "returned" /\ openRet' = ErrStat
       ELSE /\ opc' = IF Len(file) = 0 THEN "init" ELSE "read"
            /\ openRet' = openRet
    /\ UNCHANGED <<osPageSize, dbPageSize, buf, file, disk, initRet, opens>>
    /\ KeepNotOpen

\* DB.init up to the write: the page size and the buffer.
init_build ==
    /\ opc = "init"
    /\ dbPageSize' = osPageSize
    /\ buf' = InitPages(osPageSize)
    /\ opc' = "write"
    /\ UNCHANGED <<osPageSize, file, disk, initRet, openRet, opens>>
    /\ KeepNotOpen

\* db.ops.writeAt(buf, 0): all of the buffer, or an error after n pages.
init_writeAt(ok, n) ==
    /\ opc = "write"
    /\ ok => n = Len(buf)
    /\ file' = SubSeq(buf, 1, n)
    /\ IF ok THEN opc' = "sync" /\ UNCHANGED <<initRet, openRet>>
             ELSE opc' = "returned" /\ initRet' = ErrWriteAt /\ openRet' = ErrWriteAt
    /\ UNCHANGED <<osPageSize, dbPageSize, buf, disk, opens>>
    /\ KeepNotOpen

\* fdatasync(db), and the return of init.
init_fdatasync(ok) ==
    /\ opc = "sync"
    /\ IF ok THEN /\ disk' = file
                  /\ initRet' = Nil
                  /\ opc' = "mmap"
                  /\ openRet' = openRet
             ELSE /\ disk' = disk
                  /\ initRet' = ErrSync
                  /\ openRet' = ErrSync
                  /\ opc' = "returned"
    /\ UNCHANGED <<osPageSize, dbPageSize, buf, file, opens>>
    /\ KeepNotOpen

\* Open on a file that is not empty: the page size from the first page.
Open_read(ok) ==
    /\ opc = "read"
    /\ dbPageSize' = IF ~ok THEN dbPageSize
                     ELSE IF validate(file[1].meta) # Nil THEN osPageSize
                     ELSE LEValue(MetaPageSize(file[1].meta))
    /\ opc' = "mmap"
    /\ UNCHANGED <<osPageSize, buf, file, disk, initRet, openRet, opens>>
    /\ KeepNotOpen

\* db.mmap(0) and the return of Open.
Open_mmap(ok) ==
    /\ opc = "mmap"
    /\ openRet' = IF ~ok THEN ErrMmap
                  ELSE IF Len(file) * osPageSize < dbPageSize * 2 THEN ErrFileSize
                  ELSE mmapValidate(MappedMeta(0), MappedMeta(1))
    /\ opc' = "returned"
    /\ UNCHANGED <<osPageSize, dbPageSize, buf, file, disk, initRet, opens>>
    /\ KeepNotOpen

NextOpen ==
    \/ \E ok \in BOOLEAN : Open_call(ok)
    \/ \E ok \in BOOLEAN : Open_stat(ok)
    \/ init_build
    \/ \E ok \in BOOLEAN : \E n \in 0..4 : init_writeAt(ok, n)
    \/ \E ok \in BOOLEAN : init_fdatasync(ok)
    \/ \E ok \in BOOLEAN : Open_read(ok)
    \/ \E ok \in BOOLEAN : Open_mmap(ok)

SpecOpen == InitOpen /\ [][NextOpen]_vars

\* The buffer of init: meta pages 0 and 1 with transaction ids 0 and 1, the
\* fields of the claim and a checksum that validates; page 2 an empty
\* free-list page, page 3 an empty leaf page.
InitBufferLaidOut ==
    /\ Len(buf) = 4
    /\ \A i \in 0..1 :
        /\ buf[i + 1].id = i
        /\ buf[i + 1].flags = metaPageFlag
        /\ MetaMagic(buf[i + 1].meta) = magic
        /\ MetaVersion(buf[i + 1].meta) = version
        /\ LEValue(MetaPageSize(buf[i + 1].meta)) = osPageSize
        /\ LEValue(MetaFreelist(buf[i + 1].meta)) = 2
        /\ LEValue(MetaData(buf[i + 1].meta)) = 3
        /\ LEValue(MetaTxid(buf[i + 1].meta)) = i
        /\ validate(buf[i + 1].meta) = Nil
    /\ buf[3].id = 2 /\ buf[3].flags = freelistPageFlag /\ buf[3].count = 0
    /\ buf[4].id = 3 /\ buf[4].flags = leafPageFlag /\ buf[4].count = 0

====
